---- MODULE Spec2Model ----
(***************************************************************************)
(* Scoring, classification, ratio-derivation, screening and ranking core   *)
(* of the CSE stock research toolkit.                                      *)
(*                                                                         *)
(* Numbers.  A Python float is modelled as an integer number of hundredths *)
(* (8.0 is 800, 0.7 is 70, 1.81 is 181), or as the value NaN.  Every       *)
(* ladder threshold of the source is a multiple of 0.01, so the ladders    *)
(* compare exactly; quotients are compared by cross-multiplication.        *)
(* Where IEEE-754 rounding can move a result across an integer or across a *)
(* rounding tie (the exact value is integral or an exact tie), the         *)
(* direction is given by the variable fpLow, which is part of the input.   *)
(***************************************************************************)
EXTENDS Integers, Sequences, FiniteSets, TLC

VARIABLES
    pc,        \* position of the driver: which call has been made
    data,      \* the company record (Dict) handed to analyze_company
    edits,     \* number of keys written to / removed from data so far
    fpLow,     \* TRUE: floating-point evaluation lands just below the exact value
    scores,    \* what analyze_company returned (InvestmentScores) or raised
    args,      \* arguments of a direct call of a classification function
    verdict,   \* what the classification function returned
    df,        \* the table (DataFrame) handed to a table operation
    ret,       \* what the table operation returned or raised
    calls      \* the calls made so far on one object: operation, input, result

vars == <<pc, data, edits, fpLow, scores, args, verdict, df, ret, calls>>

-----------------------------------------------------------------------------
(* Values                                                                  *)

\* float('nan'): every ordered comparison with it is false
NaN == 2000000001
\* the key is not in the dictionary
Absent == 2000000002
\* the key is present with value None
NoneVal == 2000000003
\* the key is present with a string float() cannot parse (for example 'N/A')
BadStr == 2000000004
\* a string such as '1,250.00%' is the number it spells plus this offset
StrBase == 1000000000

IsStr(v) == v >= StrBase - 100000000 /\ v < StrBase + 100000000
StrOf(x) == StrBase + x

IsNum(x) == x # NaN

\* comparisons of a float with a constant or another float: false on NaN
Gt(x, y) == IsNum(x) /\ IsNum(y) /\ x > y
Ge(x, y) == IsNum(x) /\ IsNum(y) /\ x >= y
Lt(x, y) == IsNum(x) /\ IsNum(y) /\ x < y
Le(x, y) == IsNum(x) /\ IsNum(y) /\ x <= y

Min2(a, b) == IF a < b THEN a ELSE b
Max2(a, b) == IF a > b THEN a ELSE b
Abs(a) == IF a < 0 THEN -a ELSE a

\* int(): truncation toward zero of the quotient n/d, d > 0
Trunc(n, d) == IF n >= 0 THEN n \div d ELSE -((-n) \div d)

\* round(n/d) to the nearest integer, d > 0; an exact tie goes down when the
\* floating-point value lies just below it and up otherwise
RoundDiv(n, d, low) ==
    LET q == n \div d
        r == n % d
    IN  IF 2 * r < d THEN q
        ELSE IF 2 * r > d THEN q + 1
        ELSE IF low THEN q ELSE q + 1

RECURSIVE SqrtSearch(_, _, _)
\* largest r in lo..hi with r*r <= x
SqrtSearch(x, lo, hi) ==
    IF lo >= hi THEN lo
    ELSE LET mid == (lo + hi + 1) \div 2
         IN  IF mid * mid <= x THEN SqrtSearch(x, mid, hi)
             ELSE SqrtSearch(x, lo, mid - 1)

ISqrt(x) == SqrtSearch(x, 0, 46340)

-----------------------------------------------------------------------------
(* The record and _get_float                                               *)

Fields == {"pe_ratio", "pb_ratio", "dividend_yield", "dividend_per_share", "eps",
           "nav", "roe", "roa", "gross_margin", "net_margin", "asset_turnover",
           "debt_equity", "current_ratio", "last_traded_price", "52_week_high",
           "52_week_low", "change_percent", "net_profit", "operating_cash_flow",
           "total_assets", "total_liabilities", "shareholders_equity",
           "market_cap", "revenue", "operating_income"}

\* a _get_float that remembers the record of the call before and answers from
\* it where the record at hand has no value
_get_float_remembering(d, key, default) ==
    LET value == IF key \in DOMAIN d THEN d[key] ELSE Absent
        last  == IF calls # <<>> /\ calls[Len(calls)].op = "analyze_company"
                 THEN calls[Len(calls)].input[key] ELSE Absent
    IN  IF value \in {Absent, NoneVal, BadStr}
        THEN IF last < StrBase THEN last ELSE default
        ELSE IF IsStr(value) THEN value - StrBase
        ELSE value

\* _get_float(data, key, default): the default when the key is absent, None
\* or an unparseable string; the parsed number for a string; else float(value)
_get_float(d, key, default) ==
    LET value == IF key \in DOMAIN d THEN d[key] ELSE Absent
    IN  IF value = Absent THEN default
        ELSE IF value = NoneVal THEN default
        ELSE IF value = BadStr THEN default
        ELSE IF IsStr(value) THEN value - StrBase
        ELSE value

-----------------------------------------------------------------------------
(* ComprehensiveInvestmentAnalyzer: special scores                         *)

\* raised by int() of a NaN (ValueError) or by a division by zero
Raised == 2000000005

calculate_piotroski_f_score(d) ==
    LET net_profit     == _get_float(d, "net_profit", 0)
        eps            == _get_float(d, "eps", 0)
        operating_cf   == _get_float(d, "operating_cash_flow", 0)
        roa            == _get_float(d, "roa", 0)
        roe            == _get_float(d, "roe", 0)
        debt_equity    == _get_float(d, "debt_equity", 100)
        current_ratio  == _get_float(d, "current_ratio", 100)
        gross_margin   == _get_float(d, "gross_margin", 0)
        asset_turnover == _get_float(d, "asset_turnover", 0)
        s1 == IF Gt(net_profit, 0) \/ Gt(eps, 0) THEN 1 ELSE 0
        s2 == IF Gt(operating_cf, 0) THEN 1 ELSE 0
        s3 == IF Gt(roa, 0) THEN 1 ELSE 0
        s4 == IF Gt(operating_cf, net_profit) /\ Gt(net_profit, 0) THEN 1
              ELSE IF Gt(operating_cf, 0) /\ Gt(eps, 0) THEN 1 ELSE 0
        s5 == IF Lt(debt_equity, 50) THEN 1 ELSE 0
        s6 == IF Gt(current_ratio, 100) THEN 1 ELSE 0
        s7 == IF Lt(debt_equity, 100) /\ Gt(roe, 1000) THEN 1 ELSE 0
        s8 == IF Gt(gross_margin, 2000) THEN 1 ELSE 0
        s9 == IF Gt(asset_turnover, 50) THEN 1 ELSE 0
    IN  Min2(s1 + s2 + s3 + s4 + s5 + s6 + s7 + s8 + s9, 9)

\* Z = 1.2A + 1.4B + 3.3C + 0.6D + 1.0E, each component clamped, rounded to
\* two decimals.  With A = An/1000, B = Bn/(10 ta), C = Cn/(10 ta),
\* D = Dn/Dd and E = En/(10 ta) the value in hundredths is
\* 3 An/25 + (140 Bn + 330 Cn + 100 En)/(10 ta) + 60 Dn/Dd.
calculate_altman_z_score(d, low) ==
    LET total_assets        == _get_float(d, "total_assets", 100)
        total_liabilities   == _get_float(d, "total_liabilities", 0)
        market_cap          == _get_float(d, "market_cap", 0)
        revenue             == _get_float(d, "revenue", 0)
        shareholders_equity == _get_float(d, "shareholders_equity", 0)
        current_ratio       == _get_float(d, "current_ratio", 100)
        operating_income    == _get_float(d, "operating_income", 0)
        net_profit          == _get_float(d, "net_profit", 0)
        useB  == Gt(shareholders_equity, 0)
        useC1 == Gt(operating_income, 0)
        useC2 == ~useC1 /\ Gt(net_profit, 0)
        useD  == Gt(total_liabilities, 0)
        useE  == Gt(revenue, 0)
        isNaN == \/ ~IsNum(current_ratio)
                 \/ ~IsNum(total_assets) /\ (useB \/ useC1 \/ useC2 \/ useE)
                 \/ useD /\ ~IsNum(market_cap)
        ta == IF IsNum(total_assets) THEN total_assets ELSE 1
        An == Max2(Min2(3 * (current_ratio - 100), 500), -300)
        Bn == IF useB THEN Max2(Min2(7 * shareholders_equity, 5 * ta), 0) ELSE 0
        Cn == IF useC1 THEN Max2(Min2(10 * operating_income, 3 * ta), -ta)
              ELSE IF useC2 THEN Max2(Min2(13 * net_profit, 3 * ta), -ta)
              ELSE 0
        Dn == IF useD THEN Max2(Min2(market_cap, 5 * total_liabilities), 0) ELSE 5
        Dd == IF useD THEN total_liabilities ELSE 1
        En == IF useE THEN Max2(Min2(10 * revenue, 20 * ta), 0) ELSE 0
        Q  == 140 * Bn + 330 * Cn + 100 * En
        num == 6 * An * ta * Dd + 5 * Q * Dd + 3000 * Dn * ta
        den == 50 * ta * Dd
    IN  IF Le(total_assets, 0) THEN 0
        ELSE IF isNaN THEN NaN
        ELSE RoundDiv(num, den, low)

\* round(sqrt(22.5 eps nav), 2): in hundredths the integer nearest to
\* sqrt(45 E N / 2), which is (floor(sqrt(90 E N)) + 1) div 2
\* the Graham number cut to two decimals instead of rounded
calculate_graham_number_cut(d) ==
    LET eps == _get_float(d, "eps", 0)
        nav == _get_float(d, "nav", 0)
    IN  IF Gt(eps, 0) /\ Gt(nav, 0)
        THEN ISqrt(90 * eps * nav) \div 2
        ELSE 0

calculate_graham_number(d) ==
    LET eps == _get_float(d, "eps", 0)
        nav == _get_float(d, "nav", 0)
    IN  IF Gt(eps, 0) /\ Gt(nav, 0)
        THEN (ISqrt(90 * eps * nav) + 1) \div 2
        ELSE 0

calculate_graham_upside(d, graham_number, low) ==
    LET price == _get_float(d, "last_traded_price", 0)
    IN  IF Gt(price, 0) /\ Gt(graham_number, 0)
        THEN RoundDiv(10000 * (graham_number - price), price, low)
        ELSE 0

\* the rank with earnings_yield = (1 / pe) * 100 computed whatever pe is:
\* a zero P/E divides by zero
calculate_magic_formula_rank_unguarded(d, low) ==
    LET pe          == _get_float(d, "pe_ratio", 2000)
        roe         == _get_float(d, "roe", 1000)
        debt_equity == _get_float(d, "debt_equity", 50)
        capE == Gt(pe, 0) /\ pe <= 500
        en == IF ~IsNum(pe) THEN 0 ELSE IF capE THEN 50 ELSE IF pe > 0 THEN 25000 ELSE -25000
        ed == IF ~IsNum(pe) \/ capE THEN 1 ELSE Abs(pe)
        rocN == roe
        rocD == IF Gt(debt_equity, 0) THEN 100 + debt_equity ELSE 100
        capR == rocN >= 30 * rocD
        rn == IF capR THEN 50 ELSE 5 * rocN
        rd == IF capR THEN 1 ELSE 3 * rocD
        num == en * rd + rn * ed
        den == ed * rd
        exact == Trunc(num, den)
        total == IF low /\ num > 0 /\ num % den = 0 THEN exact - 1 ELSE exact
    IN  IF ~IsNum(roe) \/ pe = 0 THEN Raised
        ELSE Max2(1, Min2(100 - total, 100))

\* rank = max(1, min(100 - int(ey_score + roc_score), 100)); int() of a NaN
\* total raises ValueError
\* the rank left as 100 - int(total_score), without max(1, min(rank, 100))
calculate_magic_formula_rank_unclamped(d, low) ==
    LET pe          == _get_float(d, "pe_ratio", 2000)
        roe         == _get_float(d, "roe", 1000)
        debt_equity == _get_float(d, "debt_equity", 50)
        capE == Gt(pe, 0) /\ pe <= 500
        en == IF ~Gt(pe, 0) THEN 0 ELSE IF capE THEN 50 ELSE 25000
        ed == IF ~Gt(pe, 0) \/ capE THEN 1 ELSE pe
        rocD == IF Gt(debt_equity, 0) THEN 100 + debt_equity ELSE 100
        capR == roe >= 30 * rocD
        rn == IF capR THEN 50 ELSE 5 * roe
        rd == IF capR THEN 1 ELSE 3 * rocD
        total == Trunc(en * rd + rn * ed, ed * rd)
    IN  IF ~IsNum(roe) THEN Raised ELSE 100 - total

calculate_magic_formula_rank(d, low) ==
    LET pe          == _get_float(d, "pe_ratio", 2000)
        roe         == _get_float(d, "roe", 1000)
        debt_equity == _get_float(d, "debt_equity", 50)
        \* ey_score = min(100/pe, 20) / 20 * 50 as en/ed
        capE == Gt(pe, 0) /\ pe <= 500
        en == IF ~Gt(pe, 0) THEN 0 ELSE IF capE THEN 50 ELSE 25000
        ed == IF ~Gt(pe, 0) \/ capE THEN 1 ELSE pe
        \* roc = roe / (1 + debt_equity) when debt_equity > 0, else roe
        rocN == roe
        rocD == IF Gt(debt_equity, 0) THEN 100 + debt_equity ELSE 100
        \* roc_score = min(roc, 30) / 30 * 50 as rn/rd
        capR == rocN >= 30 * rocD
        rn == IF capR THEN 50 ELSE 5 * rocN
        rd == IF capR THEN 1 ELSE 3 * rocD
        num == en * rd + rn * ed
        den == ed * rd
        exact == Trunc(num, den)
        total == IF low /\ num > 0 /\ num % den = 0 THEN exact - 1 ELSE exact
    IN  IF ~IsNum(roe) THEN Raised
        ELSE Max2(1, Min2(100 - total, 100))

-----------------------------------------------------------------------------
(* ComprehensiveInvestmentAnalyzer: the six sub-scores                     *)

calculate_quality_score(d) ==
    LET roe            == _get_float(d, "roe", 0)
        roa            == _get_float(d, "roa", 0)
        gross_margin   == _get_float(d, "gross_margin", 0)
        net_margin     == _get_float(d, "net_margin", 0)
        asset_turnover == _get_float(d, "asset_turnover", 0)
        p1 == IF Ge(roe, 2500) THEN 30 ELSE IF Ge(roe, 2000) THEN 25
              ELSE IF Ge(roe, 1500) THEN 20 ELSE IF Ge(roe, 1000) THEN 15
              ELSE IF Ge(roe, 500) THEN 10 ELSE IF Gt(roe, 0) THEN 5 ELSE 0
        p2 == IF Ge(roa, 1500) THEN 20 ELSE IF Ge(roa, 1000) THEN 15
              ELSE IF Ge(roa, 700) THEN 10 ELSE IF Ge(roa, 500) THEN 7
              ELSE IF Gt(roa, 0) THEN 3 ELSE 0
        p3 == IF Ge(gross_margin, 4000) THEN 20 ELSE IF Ge(gross_margin, 3000) THEN 15
              ELSE IF Ge(gross_margin, 2000) THEN 10
              ELSE IF Ge(gross_margin, 1500) THEN 5 ELSE 0
        p4 == IF Ge(net_margin, 2000) THEN 20 ELSE IF Ge(net_margin, 1500) THEN 15
              ELSE IF Ge(net_margin, 1000) THEN 10
              ELSE IF Ge(net_margin, 500) THEN 5 ELSE 0
        p5 == IF Ge(asset_turnover, 150) THEN 10 ELSE IF Ge(asset_turnover, 100) THEN 7
              ELSE IF Ge(asset_turnover, 50) THEN 4 ELSE 0
    IN  Min2(p1 + p2 + p3 + p4 + p5, 100)

\* the ladder with a penalty for heavy debt instead of no points
safety_debt_points_penalty(debt_equity) ==
    IF Le(debt_equity, 20) THEN 40 ELSE IF Le(debt_equity, 30) THEN 35
    ELSE IF Le(debt_equity, 50) THEN 30 ELSE IF Le(debt_equity, 70) THEN 25
    ELSE IF Le(debt_equity, 100) THEN 20
    ELSE IF Le(debt_equity, 150) THEN 10 ELSE -10

\* Debt/Equity component (max 40 points)
safety_debt_points(debt_equity) ==
    IF Le(debt_equity, 20) THEN 40 ELSE IF Le(debt_equity, 30) THEN 35
    ELSE IF Le(debt_equity, 50) THEN 30 ELSE IF Le(debt_equity, 70) THEN 25
    ELSE IF Le(debt_equity, 100) THEN 20
    ELSE IF Le(debt_equity, 150) THEN 10 ELSE 0

calculate_safety_score(d) ==
    LET debt_equity   == _get_float(d, "debt_equity", 100)
        current_ratio == _get_float(d, "current_ratio", 100)
        eps           == _get_float(d, "eps", 0)
        p1 == safety_debt_points(debt_equity)
        p2 == IF Ge(current_ratio, 250) THEN 30 ELSE IF Ge(current_ratio, 200) THEN 25
              ELSE IF Ge(current_ratio, 150) THEN 20
              ELSE IF Ge(current_ratio, 120) THEN 15
              ELSE IF Ge(current_ratio, 100) THEN 10
              ELSE IF Ge(current_ratio, 80) THEN 5 ELSE 0
        p3 == IF Gt(eps, 1000) THEN 30 ELSE IF Gt(eps, 500) THEN 25
              ELSE IF Gt(eps, 200) THEN 20 ELSE IF Gt(eps, 0) THEN 15 ELSE 0
    IN  Min2(p1 + p2 + p3, 100)

calculate_value_score(d) ==
    LET pe        == _get_float(d, "pe_ratio", 3000)
        pb        == _get_float(d, "pb_ratio", 300)
        div_yield == _get_float(d, "dividend_yield", 0)
        p1 == IF Gt(pe, 0) /\ Le(pe, 800) THEN 35 ELSE IF Le(pe, 1000) THEN 30
              ELSE IF Le(pe, 1200) THEN 25 ELSE IF Le(pe, 1500) THEN 20
              ELSE IF Le(pe, 2000) THEN 15 ELSE IF Le(pe, 2500) THEN 10
              ELSE IF Le(pe, 3000) THEN 5 ELSE 0
        p2 == IF Gt(pb, 0) /\ Le(pb, 70) THEN 35 ELSE IF Le(pb, 100) THEN 30
              ELSE IF Le(pb, 120) THEN 25 ELSE IF Le(pb, 150) THEN 20
              ELSE IF Le(pb, 200) THEN 15 ELSE IF Le(pb, 250) THEN 10
              ELSE IF Le(pb, 300) THEN 5 ELSE 0
        p3 == IF Ge(div_yield, 800) THEN 30 ELSE IF Ge(div_yield, 600) THEN 25
              ELSE IF Ge(div_yield, 500) THEN 20 ELSE IF Ge(div_yield, 400) THEN 15
              ELSE IF Ge(div_yield, 300) THEN 10
              ELSE IF Ge(div_yield, 200) THEN 5 ELSE 0
    IN  Min2(p1 + p2 + p3, 100)

\* payout_ratio = dps / eps * 100 when eps > 0 and dps > 0, else 0; a band
\* lo <= payout_ratio <= hi is lo * eps <= 100 * dps <= hi * eps
calculate_dividend_score(d) ==
    LET div_yield == _get_float(d, "dividend_yield", 0)
        dps       == _get_float(d, "dividend_per_share", 0)
        eps       == _get_float(d, "eps", 0)
        has  == Gt(eps, 0) /\ Gt(dps, 0)
        Band(lo, hi) == IF has THEN lo * eps <= 100 * dps /\ 100 * dps <= hi * eps
                        ELSE lo <= 0 /\ 0 <= hi
        Over70 == has /\ 100 * dps > 70 * eps /\ 100 * dps <= 80 * eps
        p1 == IF Ge(div_yield, 800) THEN 50 ELSE IF Ge(div_yield, 600) THEN 45
              ELSE IF Ge(div_yield, 500) THEN 40 ELSE IF Ge(div_yield, 400) THEN 35
              ELSE IF Ge(div_yield, 300) THEN 25 ELSE IF Ge(div_yield, 200) THEN 15
              ELSE IF Ge(div_yield, 100) THEN 5 ELSE 0
        p2 == IF Band(30, 50) THEN 30 ELSE IF Band(20, 60) THEN 25
              ELSE IF Band(10, 70) THEN 20 ELSE IF Over70 THEN 10
              ELSE IF has THEN 5 ELSE 0
        p3 == IF Gt(div_yield, 0) /\ Gt(dps, 0) THEN 20 ELSE 0
    IN  Min2(p1 + p2 + p3, 100)

\* retention = 1 - dps/eps = rn/rdn (1/2 when eps or dps is not positive);
\* sustainable_growth = roe * retention when roe > 0, else 0;
\* peg_proxy = pe / max(sustainable_growth, 5) when sustainable_growth > 0,
\* else pe / 10
calculate_growth_score(d) ==
    LET roe == _get_float(d, "roe", 0)
        pe  == _get_float(d, "pe_ratio", 2000)
        dps == _get_float(d, "dividend_per_share", 0)
        eps == _get_float(d, "eps", 0)
        has == Gt(eps, 0) /\ Gt(dps, 0)
        rn  == IF has THEN eps - dps ELSE 1
        rdn == IF has THEN eps ELSE 2
        pos == Gt(roe, 0)
        \* sustainable_growth >= t (t in percent), for t > 0
        SgGe(t) == pos /\ roe * rn >= 100 * t * rdn
        sgPos == pos /\ rn > 0
        \* peg_proxy <= h / 2
        PegLe(h) == IF ~IsNum(pe) THEN FALSE
                    ELSE IF sgPos /\ SgGe(5) THEN 2 * pe * rdn <= h * roe * rn
                    ELSE IF sgPos THEN 2 * pe <= h * 500
                    ELSE 2 * pe <= h * 1000
        p1 == IF Ge(roe, 2500) THEN 35 ELSE IF Ge(roe, 2000) THEN 30
              ELSE IF Ge(roe, 1500) THEN 25 ELSE IF Ge(roe, 1200) THEN 20
              ELSE IF Ge(roe, 1000) THEN 15 ELSE IF Ge(roe, 500) THEN 10 ELSE 0
        p2 == IF SgGe(20) THEN 35 ELSE IF SgGe(15) THEN 30 ELSE IF SgGe(12) THEN 25
              ELSE IF SgGe(10) THEN 20 ELSE IF SgGe(8) THEN 15
              ELSE IF SgGe(5) THEN 10 ELSE 0
        p3 == IF PegLe(1) THEN 30 ELSE IF PegLe(2) THEN 25 ELSE IF PegLe(3) THEN 20
              ELSE IF PegLe(4) THEN 15 ELSE IF PegLe(5) THEN 10 ELSE 0
    IN  Min2(p1 + p2 + p3, 100)

\* position = (price - low) / (high - low) * 100 and
\* discount = (high - price) / high * 100; the defaults high = price * 1.2
\* and low = price * 0.8 are kept exact by working in tenths of a hundredth
calculate_momentum_score(d) ==
    LET price      == _get_float(d, "last_traded_price", 0)
        dflt(k)    == IF IsNum(price) THEN k * price ELSE NaN
        high_raw   == _get_float(d, "52_week_high", Absent)
        low_raw    == _get_float(d, "52_week_low", Absent)
        high_52    == IF high_raw = Absent THEN dflt(12)
                      ELSE IF IsNum(high_raw) THEN 10 * high_raw ELSE NaN
        low_52     == IF low_raw = Absent THEN dflt(8)
                      ELSE IF IsNum(low_raw) THEN 10 * low_raw ELSE NaN
        p10        == IF IsNum(price) THEN 10 * price ELSE NaN
        change_pct == _get_float(d, "change_percent", 0)
        range      == high_52 - low_52
        PosIn(lo, hi) == IsNum(p10) /\ lo * range <= 100 * (p10 - low_52)
                                    /\ 100 * (p10 - low_52) <= hi * range
        PosLe(t)   == IsNum(p10) /\ 100 * (p10 - low_52) <= t * range
        PosGe(t)   == IsNum(p10) /\ 100 * (p10 - low_52) >= t * range
        off        == high_52 - p10
        DiscIn(lo, hi) == IsNum(p10) /\ lo * high_52 <= 100 * off
                                     /\ 100 * off <= hi * high_52
        DiscLt(t)  == IsNum(p10) /\ 100 * off < t * high_52
        DiscGt(t)  == IsNum(p10) /\ 100 * off > t * high_52
        p1 == IF Gt(high_52, low_52)
              THEN IF PosIn(40, 60) THEN 50 ELSE IF PosIn(30, 70) THEN 40
                   ELSE IF PosIn(20, 80) THEN 30 ELSE IF PosLe(20) THEN 35
                   ELSE IF PosGe(80) THEN 20 ELSE 0
              ELSE 0
        p2 == IF Ge(change_pct, 300) THEN 30 ELSE IF Ge(change_pct, 200) THEN 25
              ELSE IF Ge(change_pct, 100) THEN 20 ELSE IF Ge(change_pct, 0) THEN 15
              ELSE IF Ge(change_pct, -100) THEN 10
              ELSE IF Ge(change_pct, -200) THEN 5 ELSE 0
        p3 == IF Gt(high_52, 0)
              THEN IF DiscIn(20, 40) THEN 20 ELSE IF DiscIn(10, 50) THEN 15
                   ELSE IF DiscLt(10) THEN 10 ELSE IF DiscGt(50) THEN 5 ELSE 0
              ELSE 0
    IN  Min2(p1 + p2 + p3, 100)

-----------------------------------------------------------------------------
(* Composite score, grade and recommendation                               *)

\* the exact weighted sum, in hundredths of a point
WeightedSum(value, quality, safety, dividend, growth, momentum) ==
    25 * value + 25 * quality + 20 * safety + 15 * dividend + 10 * growth + 5 * momentum

\* the composite with the weights of safety and dividend exchanged
calculate_composite_score_swapped(value, quality, safety, dividend, growth, momentum, low) ==
    LET composite == WeightedSum(value, quality, dividend, safety, growth, momentum)
        capped    == Min2(composite, 10000)
    IN  IF low /\ capped > 0 /\ capped % 100 = 0
        THEN capped \div 100 - 1
        ELSE Trunc(capped, 100)

\* int(min(sum(score * weight), 100)).  The products with 0.20, 0.15, 0.10
\* and 0.05 are rounded, so a sum that is an integer in exact arithmetic can
\* come out just below it (2, 35, 45, 57, 10, 44 gives 29.999999999999996)
\* and int() then yields one less.
calculate_composite_score(value, quality, safety, dividend, growth, momentum, low) ==
    LET composite == WeightedSum(value, quality, safety, dividend, growth, momentum)
        capped    == Min2(composite, 10000)
    IN  IF low /\ capped > 0 /\ capped % 100 = 0
        THEN capped \div 100 - 1
        ELSE Trunc(capped, 100)

\* characters '@'..'G' with their code points, for chr(ord(grade) +- 1)
Alphabet == <<"@", "A", "B", "C", "D", "E", "F", "G">>
Ord(ch) == 63 + (CHOOSE i \in 1..Len(Alphabet) : Alphabet[i] = ch)
Chr(n) == Alphabet[n - 63]

\* the ladder with the letters of the two lower rungs exchanged
base_grade_swapped(composite) ==
    IF composite >= 80 THEN "A"
    ELSE IF composite >= 65 THEN "B"
    ELSE IF composite >= 50 THEN "D"
    ELSE IF composite >= 35 THEN "C"
    ELSE "F"

\* Start with composite-based grade
base_grade_of(composite) ==
    IF composite >= 80 THEN "A"
    ELSE IF composite >= 65 THEN "B"
    ELSE IF composite >= 50 THEN "C"
    ELSE IF composite >= 35 THEN "D"
    ELSE "F"

\* the grade with the distress adjustment going straight to the last letter
determine_grade_distress_last(composite, piotroski, altman) ==
    LET base_grade == base_grade_of(composite)
        adjusted   == IF piotroski >= 7 /\ base_grade \in {"B", "C"}
                      THEN Chr(Ord(base_grade) - 1)
                      ELSE IF piotroski <= 3 /\ base_grade \in {"A", "B", "C"}
                      THEN Chr(Ord(base_grade) + 1)
                      ELSE base_grade
    IN  IF Lt(altman, 181) THEN "F" ELSE adjusted

determine_grade(composite, piotroski, altman) ==
    LET base_grade == base_grade_of(composite)
        adjusted   == IF piotroski >= 7 /\ base_grade \in {"B", "C"}
                      THEN Chr(Ord(base_grade) - 1)
                      ELSE IF piotroski <= 3 /\ base_grade \in {"A", "B", "C"}
                      THEN Chr(Ord(base_grade) + 1)
                      ELSE base_grade
    IN  IF Lt(altman, 181) /\ adjusted # "F"
        THEN Chr(Min2(Ord(adjusted) + 1, Ord("F")))
        ELSE adjusted

\* the decision tree with the buy rules tried before the distress rules
generate_recommendation_late(composite, piotroski, altman, graham_upside) ==
    IF composite >= 75 /\ piotroski >= 7 /\ Gt(graham_upside, 2000) THEN "Strong Buy"
    ELSE IF composite >= 65 /\ piotroski >= 6 /\ Gt(graham_upside, 0) THEN "Buy"
    ELSE IF Lt(altman, 150) THEN "Avoid - High Bankruptcy Risk"
    ELSE IF piotroski <= 2 THEN "Avoid - Weak Financials"
    ELSE IF composite >= 50 /\ piotroski >= 5 THEN "Hold"
    ELSE IF composite >= 35 THEN "Weak Hold"
    ELSE "Sell / Avoid"

\* the decision tree with the Hold rule tried before the two buy rules
generate_recommendation_hold_first(composite, piotroski, altman, graham_upside) ==
    IF Lt(altman, 150) THEN "Avoid - High Bankruptcy Risk"
    ELSE IF piotroski <= 2 THEN "Avoid - Weak Financials"
    ELSE IF composite >= 50 /\ piotroski >= 5 THEN "Hold"
    ELSE IF composite >= 75 /\ piotroski >= 7 /\ Gt(graham_upside, 2000) THEN "Strong Buy"
    ELSE IF composite >= 65 /\ piotroski >= 6 /\ Gt(graham_upside, 0) THEN "Buy"
    ELSE IF composite >= 35 THEN "Weak Hold"
    ELSE "Sell / Avoid"

generate_recommendation(composite, piotroski, altman, graham_upside) ==
    IF Lt(altman, 150) THEN "Avoid - High Bankruptcy Risk"
    ELSE IF piotroski <= 2 THEN "Avoid - Weak Financials"
    ELSE IF composite >= 75 /\ piotroski >= 7 /\ Gt(graham_upside, 2000) THEN "Strong Buy"
    ELSE IF composite >= 65 /\ piotroski >= 6 /\ Gt(graham_upside, 0) THEN "Buy"
    ELSE IF composite >= 50 /\ piotroski >= 5 THEN "Hold"
    ELSE IF composite >= 35 THEN "Weak Hold"
    ELSE "Sell / Avoid"

\* the value of scores before any call
NoCall == [error |-> "nocall"]

\* analyze_company: the scores in the order the source computes them; the
\* ValueError of calculate_magic_formula_rank leaves the call
analyze_company(d, low) ==
    LET piotroski     == calculate_piotroski_f_score(d)
        altman        == calculate_altman_z_score(d, low)
        graham        == calculate_graham_number(d)
        graham_upside == calculate_graham_upside(d, graham, low)
        magic_rank    == calculate_magic_formula_rank(d, low)
        quality       == calculate_quality_score(d)
        safety        == calculate_safety_score(d)
        value         == calculate_value_score(d)
        dividend      == calculate_dividend_score(d)
        growth        == calculate_growth_score(d)
        momentum      == calculate_momentum_score(d)
        composite     == calculate_composite_score(value, quality, safety, dividend,
                                                   growth, momentum, low)
    IN  IF magic_rank = Raised THEN [error |-> "ValueError"]
        ELSE [error              |-> "none",
              piotroski_f_score  |-> piotroski,
              altman_z_score     |-> altman,
              graham_number      |-> graham,
              graham_upside      |-> graham_upside,
              magic_formula_rank |-> magic_rank,
              quality_score      |-> quality,
              safety_score       |-> safety,
              value_score        |-> value,
              dividend_score     |-> dividend,
              growth_score       |-> growth,
              momentum_score     |-> momentum,
              composite_score    |-> composite,
              investment_grade   |-> determine_grade(composite, piotroski, altman),
              recommendation     |-> generate_recommendation(composite, piotroski,
                                                             altman, graham_upside)]

-----------------------------------------------------------------------------
(* Inputs                                                                  *)

\* how many keys of a base record one behaviour rewrites or removes
MaxEdits == 1

\* finite numbers a field is given: negative, zero, ladder breakpoints, extreme
NumVals(f) ==
    CASE f = "pe_ratio"            -> {-500, 0, 800, 1500, 10000}
      [] f = "pb_ratio"            -> {-100, 0, 70, 150, 1000000}
      [] f = "dividend_yield"      -> {-100, 0, 200, 800, 1000000}
      [] f = "dividend_per_share"  -> {-100, 0, 200, 700}
      [] f = "eps"                 -> {-100, 0, 200, 1000, 4000}
      [] f = "nav"                 -> {-100, 0, 4000}
      [] f = "roe"                 -> {-5000, 0, 1000, 2500, 50000}
      [] f = "roa"                 -> {-500, 0, 700, 1500}
      [] f = "gross_margin"        -> {-1000, 0, 2000, 4000}
      [] f = "net_margin"          -> {-1000, 0, 500, 2000}
      [] f = "asset_turnover"      -> {0, 50, 150}
      [] f = "debt_equity"         -> {-50, 0, 20, 100, 300}
      [] f = "current_ratio"       -> {-100, 0, 100, 250, 100000}
      [] f = "last_traded_price"   -> {-1000, 0, 1000, 5000, 100000}
      [] f = "52_week_high"        -> {0, 1000, 6000}
      [] f = "52_week_low"         -> {0, 1000, 4000}
      [] f = "change_percent"      -> {-1000000, -100, 0, 300}
      [] f = "net_profit"          -> {-100, 0, 50, 10000000}
      [] f = "operating_cash_flow" -> {-100, 0, 60}
      [] f = "total_assets"        -> {-100, 0, 100, 200}
      [] f = "total_liabilities"   -> {-100, 0, 80, 200}
      [] f = "shareholders_equity" -> {-100, 0, 120}
      [] f = "market_cap"          -> {-100, 0, 150, 10000000}
      [] f = "revenue"             -> {-100, 0, 180, 10000000}
      [] f = "operating_income"    -> {-100, 0, 40}

\* what a key can hold: a number, the same number spelled as a string, NaN,
\* None or an unparseable string
Cells(f) == NumVals(f) \cup {StrOf(v) : v \in {x \in NumVals(f) : x > 0 /\ x <= 1000}}
                       \cup {NaN, NoneVal, BadStr}

\* {"symbol": "TEST"}: no optional key
SymbolOnly == [f \in Fields |-> Absent]

\* a profitable, lightly indebted company with every key present
StrongRecord ==
    [f \in Fields |->
        CASE f = "pe_ratio"            -> 700
          [] f = "pb_ratio"            -> 90
          [] f = "dividend_yield"      -> 600
          [] f = "dividend_per_share"  -> 300
          [] f = "eps"                 -> 800
          [] f = "nav"                 -> 4000
          [] f = "roe"                 -> 2200
          [] f = "roa"                 -> 1200
          [] f = "gross_margin"        -> 3500
          [] f = "net_margin"          -> 1600
          [] f = "asset_turnover"      -> 120
          [] f = "debt_equity"         -> 30
          [] f = "current_ratio"       -> 210
          [] f = "last_traded_price"   -> 5000
          [] f = "52_week_high"        -> 6000
          [] f = "52_week_low"         -> 4000
          [] f = "change_percent"      -> 150
          [] f = "net_profit"          -> 50
          [] f = "operating_cash_flow" -> 60
          [] f = "total_assets"        -> 200
          [] f = "total_liabilities"   -> 80
          [] f = "shareholders_equity" -> 120
          [] f = "market_cap"          -> 150
          [] f = "revenue"             -> 180
          [] f = "operating_income"    -> 40]

\* a loss-making, heavily indebted company with every key present
WeakRecord ==
    [f \in Fields |->
        CASE f = "pe_ratio"            -> 4000
          [] f = "pb_ratio"            -> 400
          [] f = "dividend_yield"      -> 0
          [] f = "dividend_per_share"  -> 0
          [] f = "eps"                 -> -100
          [] f = "nav"                 -> 500
          [] f = "roe"                 -> -500
          [] f = "roa"                 -> -200
          [] f = "gross_margin"        -> 1000
          [] f = "net_margin"          -> -300
          [] f = "asset_turnover"      -> 30
          [] f = "debt_equity"         -> 250
          [] f = "current_ratio"       -> 60
          [] f = "last_traded_price"   -> 1000
          [] f = "52_week_high"        -> 3000
          [] f = "52_week_low"         -> 900
          [] f = "change_percent"      -> -300
          [] f = "net_profit"          -> -20
          [] f = "operating_cash_flow" -> -10
          [] f = "total_assets"        -> 200
          [] f = "total_liabilities"   -> 180
          [] f = "shareholders_equity" -> 20
          [] f = "market_cap"          -> 30
          [] f = "revenue"             -> 50
          [] f = "operating_income"    -> -10]

\* a price sheet: only the market figures are present
SparseRecord ==
    [f \in Fields |->
        IF f \in {"pe_ratio", "pb_ratio", "eps", "dividend_yield", "last_traded_price",
                  "change_percent"}
        THEN StrongRecord[f] ELSE Absent]

\* every key present and zero
ZeroRecord == [f \in Fields |-> 0]

BaseRecords == {SymbolOnly, StrongRecord, WeakRecord, SparseRecord, ZeroRecord}

NoArgs == [none |-> TRUE]
NoVerdict == [none |-> TRUE]
NoTable == [columns |-> {}, rows |-> <<>>]
NoRet == [error |-> "nocall"]

-----------------------------------------------------------------------------
(* Spec: a caller fills a record and has it analysed                       *)

Init ==
    /\ pc = "input"
    /\ data \in BaseRecords
    /\ edits = 0
    /\ fpLow \in BOOLEAN
    /\ scores = NoCall
    /\ args = NoArgs
    /\ verdict = NoVerdict
    /\ calls = <<>>
    /\ df = NoTable
    /\ ret = NoRet

\* data[f] = v
SetField(f, v) ==
    /\ pc = "input"
    /\ edits < MaxEdits
    /\ data[f] # v
    /\ data' = [data EXCEPT ![f] = v]
    /\ edits' = edits + 1
    /\ UNCHANGED <<pc, fpLow, scores, args, verdict, df, ret, calls>>

\* del data[f]
DelField(f) ==
    /\ pc = "input"
    /\ edits < MaxEdits
    /\ data[f] # Absent
    /\ data' = [data EXCEPT ![f] = Absent]
    /\ edits' = edits + 1
    /\ UNCHANGED <<pc, fpLow, scores, args, verdict, df, ret, calls>>

\* scores = analyzer.analyze_company(data)
AnalyzeCompany ==
    /\ pc = "input"
    /\ scores' = analyze_company(data, fpLow)
    /\ pc' = "analyzed"
    /\ UNCHANGED <<data, edits, fpLow, args, verdict, df, ret, calls>>

Next ==
    \/ \E f \in Fields : \E v \in Cells(f) : SetField(f, v)
    \/ \E f \in Fields : DelField(f)
    \/ AnalyzeCompany

Spec == Init /\ [][Next]_vars

-----------------------------------------------------------------------------
(* SpecGrade: determine_grade and generate_recommendation called directly  *)

\* Altman values: NaN, the ends of the range, and both sides of 1.5 and 1.81
AltmanVals == {NaN, -69, 0, 149, 150, 180, 181, 300, 729}
\* Graham upsides: both sides of 0 and of 20
UpsideVals == {-5000, 0, 1, 2000, 2001}

Classify(a) ==
    [investment_grade |-> determine_grade(a.composite, a.piotroski, a.altman),
     recommendation   |-> generate_recommendation(a.composite, a.piotroski,
                                                  a.altman, a.graham_upside)]

InitGrade ==
    /\ pc = "args"
    /\ args \in [composite : 0..100, piotroski : 0..9,
                 altman : AltmanVals, graham_upside : UpsideVals]
    /\ verdict = NoVerdict
    /\ calls = <<>>
    /\ data = SymbolOnly
    /\ edits = 0
    /\ fpLow = FALSE
    /\ scores = NoCall
    /\ df = NoTable
    /\ ret = NoRet

\* grade = determine_grade(...); recommendation = generate_recommendation(...)
Grade ==
    /\ pc = "args"
    /\ verdict' = Classify(args)
    /\ pc' = "graded"
    /\ UNCHANGED <<data, edits, fpLow, scores, args, df, ret, calls>>

\* the same call again with a higher composite score, Piotroski and Altman kept
Regrade(c) ==
    /\ pc \in {"graded", "regraded"}
    /\ c > args.composite
    /\ args' = [args EXCEPT !.composite = c]
    /\ verdict' = Classify(args')
    /\ pc' = "regraded"
    /\ UNCHANGED <<data, edits, fpLow, scores, df, ret, calls>>

NextGrade ==
    \/ Grade
    \/ \E c \in 0..100 : Regrade(c)

SpecGrade == InitGrade /\ [][NextGrade]_vars

-----------------------------------------------------------------------------
(* SpecComposite: calculate_composite_score called directly                *)

SubScores == {"value", "quality", "safety", "dividend", "growth", "momentum"}
\* sub-scores handed to the call
ScoreVals == {0, 1, 37, 50, 100}

InitComposite ==
    /\ pc = "args"
    /\ args \in [SubScores -> ScoreVals]
    /\ fpLow \in BOOLEAN
    /\ verdict = NoVerdict
    /\ calls = <<>>
    /\ data = SymbolOnly
    /\ edits = 0
    /\ scores = NoCall
    /\ df = NoTable
    /\ ret = NoRet

\* composite = calculate_composite_score(value=..., ..., momentum=...)
Combine ==
    /\ pc = "args"
    /\ verdict' = [composite_score |->
                     calculate_composite_score(args["value"], args["quality"],
                         args["safety"], args["dividend"], args["growth"],
                         args["momentum"], fpLow)]
    /\ pc' = "combined"
    /\ UNCHANGED <<data, edits, fpLow, scores, args, df, ret, calls>>

NextComposite == Combine

SpecComposite == InitComposite /\ [][NextComposite]_vars

-----------------------------------------------------------------------------
(* Tables: a DataFrame is its set of column labels and its rows in order;   *)
(* a row maps each column to its cell (NaN for a missing value)             *)

\* rows of the largest table
MaxRows == 2
\* columns a caller drops from a table before handing it over
MaxDropped == 1

\* columns AdvancedMetrics reads besides the analyzer's keys
MetricColumns == {"eps_growth", "cash", "total_debt", "depreciation",
                  "shares_outstanding", "free_cash_flow", "current_assets",
                  "current_liabilities", "inventory", "interest_expense",
                  "fixed_assets", "cogs", "receivables", "payables"}

Columns == {"symbol"} \cup Fields \cup MetricColumns

StrongExtra ==
    [c \in MetricColumns |->
        CASE c = "eps_growth"          -> 1500
          [] c = "cash"                -> 30
          [] c = "total_debt"          -> 40
          [] c = "depreciation"        -> 5
          [] c = "shares_outstanding"  -> 3
          [] c = "free_cash_flow"      -> 45
          [] c = "current_assets"      -> 90
          [] c = "current_liabilities" -> 40
          [] c = "inventory"           -> 20
          [] c = "interest_expense"    -> 3
          [] c = "fixed_assets"        -> 100
          [] c = "cogs"                -> 110
          [] c = "receivables"         -> 15
          [] c = "payables"            -> 10]

WeakExtra ==
    [c \in MetricColumns |->
        CASE c = "eps_growth"          -> -500
          [] c = "cash"                -> 5
          [] c = "total_debt"          -> 150
          [] c = "depreciation"        -> 10
          [] c = "shares_outstanding"  -> 3
          [] c = "free_cash_flow"      -> -25
          [] c = "current_assets"      -> 60
          [] c = "current_liabilities" -> 100
          [] c = "inventory"           -> 30
          [] c = "interest_expense"    -> 15
          [] c = "fixed_assets"        -> 120
          [] c = "cogs"                -> 45
          [] c = "receivables"         -> 10
          [] c = "payables"            -> 20]

MakeRow(symbol, rec, extra) ==
    [c \in Columns |-> IF c = "symbol" THEN symbol
                       ELSE IF c \in Fields THEN rec[c] ELSE extra[c]]

StrongRow == MakeRow("S1", StrongRecord, StrongExtra)
WeakRow == MakeRow("S2", WeakRecord, WeakExtra)

\* a company between the two, with missing values in some cells (roe known)
PatchyRow ==
    MakeRow("S3",
            [StrongRecord EXCEPT !["pe_ratio"] = NaN, !["pb_ratio"] = 245,
                                 !["eps"] = 450, !["roe"] = 850,
                                 !["dividend_yield"] = NaN, !["nav"] = NaN,
                                 !["debt_equity"] = 140, !["market_cap"] = 90,
                                 !["change_percent"] = 0, !["52_week_high"] = NaN,
                                 !["total_liabilities"] = 140],
            [StrongExtra EXCEPT !["eps_growth"] = 500, !["cash"] = NaN,
                                !["total_debt"] = 95])

\* a company whose return on equity is a missing value
HollowRow ==
    MakeRow("S4",
            [WeakRecord EXCEPT !["pe_ratio"] = 1800, !["pb_ratio"] = 152,
                               !["eps"] = 100, !["roe"] = NaN,
                               !["dividend_yield"] = 300, !["debt_equity"] = NaN,
                               !["market_cap"] = 60, !["change_percent"] = 150],
            [WeakExtra EXCEPT !["eps_growth"] = NaN])

SampleRows == {StrongRow, WeakRow, PatchyRow, HollowRow}

\* column sets of the tables handed over: every column, the analyzer's keys,
\* a price sheet, the symbols alone, and pd.DataFrame() with no column
ColumnSets == {Columns,
               {"symbol"} \cup Fields,
               {"symbol", "pe_ratio", "market_cap", "last_traded_price", "revenue"},
               {"symbol"},
               {}}

Restrict(row, cols) == [c \in cols |-> row[c]]

\* pd.DataFrame(rows)[cols]
MakeTable(cols, rows) ==
    [columns |-> cols, rows |-> [i \in 1..Len(rows) |-> Restrict(rows[i], cols)]]

\* sequences of distinct sample rows
RowSeqs ==
    {q \in UNION {[1..n -> SampleRows] : n \in 0..MaxRows} :
        \A i, j \in 1..Len(q) : i # j => q[i] # q[j]}

\* the orders of n rows
Perms(n) == {p \in [1..n -> 1..n] : \A i, j \in 1..n : i # j => p[i] # p[j]}

\* exact fractions <<numerator, denominator>> in lowest terms
RECURSIVE GCD(_, _)
GCD(a, b) == IF b = 0 THEN a ELSE GCD(b, a % b)

Rat(n, d) ==
    LET g == GCD(Abs(n), d)
    IN  IF n = 0 THEN <<0, 1>> ELSE <<n \div g, d \div g>>

RAdd(a, b) ==
    LET l == (a[2] \div GCD(a[2], b[2])) * b[2]
    IN  Rat(a[1] * (l \div a[2]) + b[1] * (l \div b[2]), l)

\* a * n / d
RScale(a, n, d) ==
    LET g1 == GCD(Abs(a[1]), d)
        g2 == GCD(n, a[2])
    IN  Rat((a[1] \div g1) * (n \div g2), (a[2] \div g2) * (d \div g1))

RLe(a, b) == a[1] * b[2] <= b[1] * a[2]
RLt(a, b) == a[1] * b[2] < b[1] * a[2]
RInt(n) == <<n, 1>>
\* among computed cells NaN is the fraction 0/0, inf and -inf are 1/0 and -1/0
RNaN == <<0, 0>>

-----------------------------------------------------------------------------
(* ComprehensiveInvestmentAnalyzer.analyze_dataframe                        *)

\* what a call on a table hands back: the exception that left it, or a table
Raise(op, exc) == [op |-> op, error |-> exc, columns |-> {}, rows |-> <<>>]
Return(op, cols, rows) == [op |-> op, error |-> "none", columns |-> cols, rows |-> rows]

ScoreColumns == {"piotroski_f_score", "altman_z_score", "graham_number",
                 "graham_upside_pct", "magic_formula_rank", "quality_score",
                 "safety_score", "value_score", "dividend_score", "growth_score",
                 "momentum_score", "composite_score", "investment_grade",
                 "recommendation"}

ScoreCell(sc, c) == IF c = "graham_upside_pct" THEN sc.graham_upside ELSE sc[c]

\* a sort_values that leaves the rows in any order
SortOrders_unsorted(keys, descending) == Perms(Len(keys))

\* sort_values: the orders that put the keys in sequence; which of two equal
\* keys comes first is left to the sorting routine of the build
SortOrders(keys, descending) ==
    {p \in Perms(Len(keys)) :
        \A i \in 1..(Len(keys) - 1) :
            IF descending THEN keys[p[i]] >= keys[p[i + 1]]
                          ELSE keys[p[i]] <= keys[p[i + 1]]}

\* scores_data: analyze_company of each row, in row order
RECURSIVE _scores_data(_, _)
_scores_data(rows, low) ==
    IF rows = <<>> THEN <<>>
    ELSE <<analyze_company(Head(rows), low)>> \o _scores_data(Tail(rows), low)

\* pd.concat([df_clean, scores_df], axis=1).sort_values('composite_score',
\* ascending=False): the score columns replace columns of the same name
_join_scores(t, sc) ==
    LET n         == Len(t.rows)
        cols      == (t.columns \ ScoreColumns) \cup ScoreColumns
        merged(i) == [c \in cols |-> IF c \in ScoreColumns THEN ScoreCell(sc[i], c)
                                     ELSE t.rows[i][c]]
    IN  {Return("analyze_dataframe", cols, [i \in 1..n |-> merged(p[i])]) :
            p \in SortOrders([i \in 1..n |-> sc[i].composite_score], TRUE)}

\* analyze_dataframe: one analyze_company per row, the scores joined to the
\* table as columns, the rows sorted by composite_score, best first.  With no
\* row the joined table has no composite_score column unless the input had.
analyze_dataframe(t, low) ==
    UNION {IF \E i \in 1..Len(sc) : sc[i].error # "none"
           THEN {Raise("analyze_dataframe", "ValueError")}
           ELSE IF Len(sc) = 0
           THEN IF "composite_score" \in t.columns
                THEN {Return("analyze_dataframe", t.columns, <<>>)}
                ELSE {Raise("analyze_dataframe", "KeyError")}
           ELSE _join_scores(t, sc)
             : sc \in {_scores_data(t.rows, low)}}

-----------------------------------------------------------------------------
(* StockScreener                                                           *)

Criterion(column, operator, value, value2) ==
    [column |-> column, operator |-> operator, value |-> value, value2 |-> value2]

\* criteria of the predefined strategies, a range, an operator the screener
\* does not know and a column no table has
SampleCriteria ==
    {Criterion("eps", "gt", 0, NoneVal),
     Criterion("pe_ratio", "lt", 1500, NoneVal),
     Criterion("pb_ratio", "lt", 150, NoneVal),
     Criterion("dividend_yield", "gt", 400, NoneVal),
     Criterion("roe", "gte", 1000, NoneVal),
     Criterion("debt_equity", "between", 0, 150),
     Criterion("pe_ratio", "ne", 1800, NoneVal),
     Criterion("volume", "gt", 0, NoneVal)}

\* the mask with the null test left out for an operator that is not known
_criterion_mask_unknown_all(row, criterion) ==
    LET x == row[criterion.column]
    IN  CASE criterion.operator = "gt"  -> x # NaN /\ x > criterion.value
          [] criterion.operator = "lt"  -> x # NaN /\ x < criterion.value
          [] criterion.operator = "gte" -> x # NaN /\ x >= criterion.value
          [] criterion.operator = "lte" -> x # NaN /\ x <= criterion.value
          [] criterion.operator = "eq"  -> x # NaN /\ x = criterion.value
          [] criterion.operator = "between" ->
                 x # NaN /\ x >= criterion.value /\ x <= criterion.value2
          [] OTHER -> TRUE

\* the mask of _apply_criterion for one row
_criterion_mask(row, criterion) ==
    LET x == row[criterion.column]
    IN  /\ x # NaN
        /\ CASE criterion.operator = "gt"  -> x > criterion.value
             [] criterion.operator = "lt"  -> x < criterion.value
             [] criterion.operator = "gte" -> x >= criterion.value
             [] criterion.operator = "lte" -> x <= criterion.value
             [] criterion.operator = "eq"  -> x = criterion.value
             [] criterion.operator = "between" ->
                    x >= criterion.value /\ x <= criterion.value2
             [] OTHER -> TRUE

\* a criterion that keeps only the first row that meets it
_apply_criterion_first(t, criterion) ==
    IF criterion.column \notin t.columns THEN t
    ELSE LET met == SelectSeq(t.rows, LAMBDA row : _criterion_mask(row, criterion))
         IN  [t EXCEPT !.rows = IF met = <<>> THEN <<>> ELSE <<Head(met)>>]

\* _apply_criterion: the table itself when it lacks the column, else the rows
\* whose cell is a value that meets the criterion, in their order
_apply_criterion(t, criterion) ==
    IF criterion.column \notin t.columns THEN t
    ELSE [t EXCEPT !.rows = SelectSeq(t.rows, LAMBDA row : _criterion_mask(row, criterion))]

RECURSIVE _apply_all(_, _)
_apply_all(t, criteria) ==
    IF criteria = <<>> THEN t
    ELSE _apply_all(_apply_criterion(t, Head(criteria)), Tail(criteria))

\* screen: pd.DataFrame() for an empty table, else the criteria in turn
screen(t, criteria) ==
    IF Len(t.rows) = 0 \/ t.columns = {}
    THEN Return("screen", {}, <<>>)
    ELSE LET r == _apply_all(t, criteria)
         IN  Return("screen", r.columns, r.rows)

\* the predefined strategies.  Eight run screen on their criteria, filter
\* once more on a column when the result has it, and sort by a column when
\* the result has rows and the column; market_cap_min, 100 000 000, is above
\* every number held here.  screen_52_week_low adds pct_above_52w_low to a
\* copy of the table, keeps the rows within 10 % and sorts them upwards.
screen_strategy(t, name) ==
    LET eps == Criterion("eps", "gt", 0, NoneVal)
        plan ==
            CASE name = "screen_value_investing" ->
                    [criteria |-> <<eps, Criterion("pe_ratio", "lt", 1500, NoneVal),
                                    Criterion("pb_ratio", "lt", 150, NoneVal)>>,
                     filter |-> <<>>, sort |-> <<"pe_ratio", FALSE>>]
              [] name = "screen_dividend_investing" ->
                    [criteria |-> <<eps, Criterion("dividend_yield", "gt", 400, NoneVal)>>,
                     filter |-> <<>>, sort |-> <<"dividend_yield", TRUE>>]
              [] name = "screen_growth_investing" ->
                    [criteria |-> <<eps, Criterion("roe", "gt", 1500, NoneVal)>>,
                     filter |-> <<>>, sort |-> <<"roe", TRUE>>]
              [] name = "screen_garp" ->
                    [criteria |-> <<eps, Criterion("roe", "gt", 1000, NoneVal),
                                    Criterion("pe_ratio", "lt", 2500, NoneVal)>>,
                     filter |-> <<"peg_ratio", 100>>, sort |-> <<>>]
              [] name = "screen_quality_investing" ->
                    [criteria |-> <<eps, Criterion("roe", "gt", 1500, NoneVal)>>,
                     filter |-> <<"debt_equity", 50>>, sort |-> <<"roe", TRUE>>]
              [] name = "screen_momentum_investing" ->
                    [criteria |-> <<Criterion("change_percent", "gt", 0, NoneVal)>>,
                     filter |-> <<>>, sort |-> <<"change_percent", TRUE>>]
              [] name = "screen_bargain_stocks" ->
                    [criteria |-> <<eps, Criterion("pe_ratio", "lt", 1000, NoneVal),
                                    Criterion("pb_ratio", "lt", 100, NoneVal)>>,
                     filter |-> <<>>, sort |-> <<"pb_ratio", FALSE>>]
              [] name = "screen_blue_chips" ->
                    [criteria |-> <<Criterion("market_cap", "gt", 2147483647, NoneVal), eps>>,
                     filter |-> <<>>, sort |-> <<"market_cap", TRUE>>]
              [] OTHER -> [criteria |-> <<>>, filter |-> <<>>, sort |-> <<>>]
        screened == screen(t, plan.criteria)
        filtered == IF plan.filter # <<>> /\ plan.filter[1] \in screened.columns
                    THEN SelectSeq(screened.rows,
                                   LAMBDA row : Lt(row[plan.filter[1]], plan.filter[2]))
                    ELSE screened.rows
        pct(row) ==
            LET price == row["last_traded_price"]
                low   == row["52_week_low"]
            IN  IF price = NaN \/ low = NaN THEN RNaN
                ELSE IF low = 0
                THEN <<IF price > 0 THEN 1 ELSE IF price < 0 THEN -1 ELSE 0, 0>>
                ELSE IF low > 0 THEN Rat((price - low) * 100, low)
                ELSE Rat((low - price) * 100, -low)
        near == SelectSeq([i \in 1..Len(t.rows) |->
                              [pct_above_52w_low |-> pct(t.rows[i])] @@ t.rows[i]],
                          LAMBDA row : /\ row["pct_above_52w_low"] # RNaN
                                       /\ RLe(row["pct_above_52w_low"], RInt(10)))
    IN  IF name = "screen_52_week_low"
        THEN IF Len(t.rows) = 0 \/ t.columns = {} THEN {Return(name, {}, <<>>)}
             ELSE IF {"52_week_low", "last_traded_price"} \subseteq t.columns
             THEN {Return(name, t.columns \cup {"pct_above_52w_low"},
                          [i \in 1..Len(near) |-> near[p[i]]]) :
                      p \in {q \in Perms(Len(near)) :
                                \A i \in 1..(Len(near) - 1) :
                                    RLe(near[q[i]]["pct_above_52w_low"],
                                        near[q[i + 1]]["pct_above_52w_low"])}}
             ELSE {Return(name, t.columns, t.rows)}
        ELSE IF plan.sort # <<>> /\ filtered # <<>> /\ plan.sort[1] \in screened.columns
        THEN {Return(name, screened.columns, [i \in 1..Len(filtered) |-> filtered[p[i]]]) :
                 p \in SortOrders([i \in 1..Len(filtered) |-> filtered[i][plan.sort[1]]],
                                  plan.sort[2])}
        ELSE {Return(name, screened.columns, filtered)}

-----------------------------------------------------------------------------
(* AdvancedMetrics.calculate_all_metrics                                    *)
(* Which statement raises is decided by the columns alone: df[c] raises     *)
(* KeyError when the table lacks c, df.get(c, 0) gives the number 0 then,   *)
(* and a number divided by the number 0 raises ZeroDivisionError, while a   *)
(* column divided by zero gives inf or NaN.  A stage is the table with the  *)
(* columns it assigns, or the first exception in statement order; the       *)
(* derived cells are carried as column labels.                              *)

Has(t, c) == c \in t.columns
KeyError(t) == Raise("calculate_all_metrics", "KeyError")
ZeroDivisionError(t) == Raise("calculate_all_metrics", "ZeroDivisionError")
Assign(t, cols) == Return("calculate_all_metrics", t.columns \cup cols, t.rows)

\* df.get(c, default) at row i: the cell, or the number given for an absent column
Cell(t, i, c, default) == IF Has(t, c) THEN t.rows[i][c] ELSE default

\* the rows of r with the cells computed for them; cells[i] is a record
WithCells(r, cells) == [r EXCEPT !.rows = [i \in 1..Len(r.rows) |-> cells[i] @@ r.rows[i]]]

\* np.where(interest_expense > 0, operating_income / interest_expense, 999),
\* interest_expense = df.get('interest_expense', df.get('total_debt', 0) * 0.08);
\* a derived cell is an exact fraction or RNaN
interest_coverage(t, i) ==
    LET operating_income == Cell(t, i, "operating_income", 0)
        total_debt       == Cell(t, i, "total_debt", 0)
    IN  IF Has(t, "interest_expense")
        THEN IF ~Gt(t.rows[i]["interest_expense"], 0) THEN RInt(999)
             ELSE IF operating_income = NaN THEN RNaN
             ELSE Rat(operating_income, t.rows[i]["interest_expense"])
        ELSE IF ~Gt(total_debt, 0) THEN RInt(999)
             ELSE IF operating_income = NaN THEN RNaN
             ELSE Rat(operating_income * 100, total_debt * 8)

\* np.where(total_debt > 0, operating_cash_flow / total_debt, 999)
cf_to_debt(t, i) ==
    LET operating_cash_flow == Cell(t, i, "operating_cash_flow", 0)
    IN  IF ~Gt(t.rows[i]["total_debt"], 0) THEN RInt(999)
        ELSE IF operating_cash_flow = NaN THEN RNaN
        ELSE Rat(operating_cash_flow, t.rows[i]["total_debt"])

\* np.where(current_liabilities > 0, cash / current_liabilities, 0) with
\* current_assets = df.get('current_assets', df.get('total_assets', 0) * 0.4),
\* current_liabilities = df.get('current_liabilities',
\*                              df.get('total_liabilities', 0) * 0.35),
\* cash = df.get('cash', current_assets * 0.15)
cash_ratio(t, i) ==
    LET Num(x) == IF x = NaN THEN RNaN ELSE RInt(x)
        Times(x, n, d) == IF x = RNaN THEN RNaN ELSE RScale(x, n, d)
        current_assets ==
            IF Has(t, "current_assets") THEN Num(t.rows[i]["current_assets"])
            ELSE Times(Num(Cell(t, i, "total_assets", 0)), 40, 100)
        current_liabilities ==
            IF Has(t, "current_liabilities") THEN Num(t.rows[i]["current_liabilities"])
            ELSE Times(Num(Cell(t, i, "total_liabilities", 0)), 35, 100)
        cash == IF Has(t, "cash") THEN Num(t.rows[i]["cash"])
                ELSE Times(current_assets, 15, 100)
    IN  IF current_liabilities = RNaN \/ ~RLt(RInt(0), current_liabilities) THEN RInt(0)
        ELSE IF cash = RNaN THEN RNaN
        ELSE Rat(cash[1] * current_liabilities[2], cash[2] * current_liabilities[1])

\* np.where(inventory > 0, cogs / inventory, 0) with
\* inventory = df.get('inventory', df.get('total_assets', 0) * 0.1),
\* cogs = df.get('cogs', df.get('revenue', 0) * 0.65)
inventory_turnover(t, i) ==
    LET Num(x) == IF x = NaN THEN RNaN ELSE RInt(x)
        Times(x, n, d) == IF x = RNaN THEN RNaN ELSE RScale(x, n, d)
        inventory == IF Has(t, "inventory") THEN Num(t.rows[i]["inventory"])
                     ELSE Times(Num(Cell(t, i, "total_assets", 0)), 10, 100)
        cogs      == IF Has(t, "cogs") THEN Num(t.rows[i]["cogs"])
                     ELSE Times(Num(Cell(t, i, "revenue", 0)), 65, 100)
    IN  IF inventory = RNaN \/ ~RLt(RInt(0), inventory) THEN RInt(0)
        ELSE IF cogs = RNaN THEN RNaN
        ELSE Rat(cogs[1] * inventory[2], cogs[2] * inventory[1])

\* shares = df.get('shares_outstanding', df['market_cap'] / df['last_traded_price'])
\* df['cfps'] = df.get('operating_cash_flow', 0) / shares: divisions of columns,
\* where x / 0 is inf, -inf or (for 0 / 0) NaN and x / inf is 0
cfps(t, i) ==
    LET Sign(n) == IF n > 0 THEN 1 ELSE IF n < 0 THEN -1 ELSE 0
        Quot(n, d) == IF d = 0 THEN <<Sign(n), 0>>
                      ELSE IF d > 0 THEN Rat(n, d) ELSE Rat(-n, -d)
        operating_cash_flow == Cell(t, i, "operating_cash_flow", 0)
        market_cap == t.rows[i]["market_cap"]
        price      == t.rows[i]["last_traded_price"]
        held       == Has(t, "shares_outstanding")
        shares     == IF held
                      THEN IF t.rows[i]["shares_outstanding"] = NaN THEN RNaN
                           ELSE RInt(t.rows[i]["shares_outstanding"])
                      ELSE IF market_cap = NaN \/ price = NaN THEN RNaN
                      ELSE Quot(market_cap, price)
        unit       == IF held THEN 1 ELSE 100
    IN  IF operating_cash_flow = NaN \/ shares = RNaN THEN RNaN
        ELSE Quot(operating_cash_flow * shares[2], unit * shares[1])

\* np.where(net_profit > 0, free_cash_flow / net_profit * 100, 0)
fcf_to_net_income(t, i) ==
    LET free_cash_flow == Cell(t, i, "free_cash_flow", 0)
    IN  IF ~Gt(t.rows[i]["net_profit"], 0) THEN RInt(0)
        ELSE IF free_cash_flow = NaN THEN RNaN
        ELSE Rat(free_cash_flow * 100, t.rows[i]["net_profit"])

\* np.where(total_assets > 0, (net_profit - operating_cash_flow) / total_assets, 0)
accruals_ratio(t, i) ==
    LET net_profit          == Cell(t, i, "net_profit", 0)
        operating_cash_flow == Cell(t, i, "operating_cash_flow", 0)
    IN  IF ~Gt(t.rows[i]["total_assets"], 0) THEN RInt(0)
        ELSE IF net_profit = NaN \/ operating_cash_flow = NaN THEN RNaN
        ELSE Rat(net_profit - operating_cash_flow, t.rows[i]["total_assets"])

\* 50, +20 and +10 for fcf_to_net_income above 80 and 100, +15 and +5 for
\* |accruals_ratio| below 0.05 and 0.02, .clip(0, 100); NaN meets no test
earnings_quality(fcf, accruals) ==
    LET above(x, k) == x # RNaN /\ RLt(RInt(k), x)
        small(x, d) == x # RNaN /\ RLt(<<Abs(x[1]), x[2]>>, <<1, d>>)
        score == 50 + (IF above(fcf, 80) THEN 20 ELSE 0)
                    + (IF above(fcf, 100) THEN 10 ELSE 0)
                    + (IF small(accruals, 20) THEN 15 ELSE 0)
                    + (IF small(accruals, 50) THEN 5 ELSE 0)
    IN  Max2(0, Min2(score, 100))

_calculate_valuation_metrics(t) ==
    IF ~Has(t, "pe_ratio") THEN KeyError(t)
    ELSE IF ~Has(t, "market_cap") THEN KeyError(t)
    ELSE IF ~Has(t, "last_traded_price") THEN KeyError(t)
    ELSE Assign(t, {"earnings_growth_rate", "peg_ratio", "enterprise_value",
                    "ebitda", "ev_ebitda", "ps_ratio", "p_fcf", "earnings_yield",
                    "fcf_yield"})

_calculate_profitability_metrics(t) ==
    LET nopat_is_number    == ~Has(t, "operating_income")
        invested_is_number == ~Has(t, "shareholders_equity") /\ ~Has(t, "total_debt")
        employed_is_number == ~Has(t, "total_assets") /\ ~Has(t, "total_liabilities")
    IN  IF ~Has(t, "revenue") THEN KeyError(t)
        ELSE IF nopat_is_number /\ invested_is_number THEN ZeroDivisionError(t)
        ELSE IF nopat_is_number /\ employed_is_number THEN ZeroDivisionError(t)
        ELSE Assign(t, {"operating_margin", "ebitda_margin", "roic", "roce"})

_calculate_liquidity_metrics(t) ==
    LET assets_is_number      == ~Has(t, "current_assets") /\ ~Has(t, "total_assets")
        liabilities_is_number == ~Has(t, "current_liabilities")
                                 /\ ~Has(t, "total_liabilities")
        inventory_is_number   == ~Has(t, "inventory") /\ assets_is_number
        cash_is_number        == ~Has(t, "cash") /\ assets_is_number
    IN  IF assets_is_number /\ inventory_is_number /\ liabilities_is_number
        THEN ZeroDivisionError(t)
        ELSE IF cash_is_number /\ liabilities_is_number THEN ZeroDivisionError(t)
        ELSE IF ~Has(t, "revenue") THEN KeyError(t)
        ELSE WithCells(Assign(t, {"quick_ratio", "cash_ratio", "working_capital",
                                  "working_capital_ratio"}),
                       [i \in 1..Len(t.rows) |-> [cash_ratio |-> cash_ratio(t, i)]])

_calculate_leverage_metrics(t) ==
    LET interest_is_number == ~Has(t, "interest_expense") /\ ~Has(t, "total_debt")
    IN  IF ~Has(t, "operating_income") /\ interest_is_number
        THEN ZeroDivisionError(t)
        ELSE IF ~Has(t, "total_assets") THEN KeyError(t)
        ELSE IF ~Has(t, "ebitda") THEN KeyError(t)
        ELSE IF ~Has(t, "shareholders_equity") THEN KeyError(t)
        ELSE WithCells(Assign(t, {"interest_coverage", "debt_to_assets", "debt_to_ebitda",
                                  "equity_multiplier", "net_debt", "net_debt_to_equity"}),
                       [i \in 1..Len(t.rows) |->
                           [interest_coverage |-> interest_coverage(t, i)]])

_calculate_efficiency_metrics(t) ==
    LET fixed_is_number     == ~Has(t, "fixed_assets") /\ ~Has(t, "total_assets")
        inventory_is_number == ~Has(t, "inventory") /\ ~Has(t, "total_assets")
        cogs_is_number      == ~Has(t, "cogs") /\ ~Has(t, "revenue")
        receivables_is_number == ~Has(t, "receivables") /\ ~Has(t, "revenue")
        payables_is_number  == ~Has(t, "payables") /\ cogs_is_number
    IN  IF ~Has(t, "revenue") /\ fixed_is_number THEN ZeroDivisionError(t)
        ELSE IF cogs_is_number /\ inventory_is_number THEN ZeroDivisionError(t)
        ELSE IF ~Has(t, "revenue") /\ receivables_is_number THEN ZeroDivisionError(t)
        ELSE IF cogs_is_number /\ payables_is_number THEN ZeroDivisionError(t)
        ELSE WithCells(Assign(t, {"fixed_asset_turnover", "inventory_turnover",
                                  "days_inventory", "receivables_turnover",
                                  "days_sales_outstanding", "payables_turnover",
                                  "days_payables", "cash_conversion_cycle"}),
                       [i \in 1..Len(t.rows) |->
                           [inventory_turnover |-> inventory_turnover(t, i)]])

_calculate_cashflow_metrics(t) ==
    IF ~Has(t, "revenue") THEN KeyError(t)
    ELSE IF ~Has(t, "total_debt") THEN KeyError(t)
    ELSE IF ~Has(t, "market_cap") \/ ~Has(t, "last_traded_price") THEN KeyError(t)
    ELSE IF ~Has(t, "net_profit") THEN KeyError(t)
    ELSE IF ~Has(t, "total_assets") THEN KeyError(t)
    ELSE WithCells(Assign(t, {"ocf_margin", "cf_to_debt", "cfps", "fcfps",
                              "fcf_to_net_income", "cash_roa"}),
                   [i \in 1..Len(t.rows) |->
                       [cf_to_debt        |-> cf_to_debt(t, i),
                        cfps              |-> cfps(t, i),
                        fcf_to_net_income |-> fcf_to_net_income(t, i)]])

_calculate_quality_metrics(t) ==
    IF ~Has(t, "total_assets") THEN KeyError(t)
    ELSE IF ~Has(t, "fcf_to_net_income") THEN KeyError(t)
    ELSE WithCells(Assign(t, {"accruals_ratio", "sloan_ratio", "earnings_quality"}),
                   [i \in 1..Len(t.rows) |->
                       [accruals_ratio   |-> accruals_ratio(t, i),
                        sloan_ratio      |-> accruals_ratio(t, i),
                        earnings_quality |->
                            earnings_quality(t.rows[i]["fcf_to_net_income"],
                                             accruals_ratio(t, i))]])

_calculate_beneish_m_score(t) ==
    IF ~Has(t, "equity_multiplier") THEN KeyError(t)
    ELSE IF ~Has(t, "accruals_ratio") THEN KeyError(t)
    ELSE Assign(t, {"beneish_m_score", "manipulation_risk"})

_calculate_dupont(t) ==
    IF ~Has(t, "roe") THEN KeyError(t)
    ELSE Assign(t, {"dupont_npm", "dupont_at", "dupont_em", "dupont_roe_calc",
                    "roe_driver"})

\* payout_ratio = df.get('payout_ratio', 0.4);
\* df['sustainable_growth_rate'] = df['roe'] * (1 - payout_ratio)
sustainable_growth_rate(t, i) ==
    LET roe          == t.rows[i]["roe"]
        payout_ratio == IF Has(t, "payout_ratio") THEN t.rows[i]["payout_ratio"]
                        ELSE Rat(4, 10)
        retention    == RAdd(RInt(1), <<-payout_ratio[1], payout_ratio[2]>>)
    IN  IF roe = NaN \/ payout_ratio = RNaN THEN RNaN
        ELSE Rat(roe * retention[1], 100 * retention[2])

_calculate_growth_rates(t) ==
    IF ~Has(t, "roe") THEN KeyError(t)
    ELSE IF ~Has(t, "roa") THEN KeyError(t)
    ELSE WithCells(Assign(t, {"sustainable_growth_rate", "internal_growth_rate"}),
                   [i \in 1..Len(t.rows) |->
                       [sustainable_growth_rate |-> sustainable_growth_rate(t, i)]])

\* np.where(eps > 0, dividend_per_share / eps * 100, 0)
payout_ratio(t, i) ==
    LET dividend_per_share == Cell(t, i, "dividend_per_share", 0)
    IN  IF ~Gt(t.rows[i]["eps"], 0) THEN RInt(0)
        ELSE IF dividend_per_share = NaN THEN RNaN
        ELSE Rat(dividend_per_share * 100, t.rows[i]["eps"])

_calculate_dividend_metrics(t) ==
    IF ~Has(t, "eps") THEN KeyError(t)
    ELSE IF ~Has(t, "dividend_per_share") THEN KeyError(t)
    ELSE IF ~Has(t, "market_cap") \/ ~Has(t, "last_traded_price") THEN KeyError(t)
    ELSE WithCells(Assign(t, {"payout_ratio", "dividend_coverage",
                              "fcf_dividend_coverage", "dividend_safety"}),
                   [i \in 1..Len(t.rows) |-> [payout_ratio |-> payout_ratio(t, i)]])

\* the four special scores in turn; an exception leaves the call.  Each stage
\* is handed the table the stage before it returned: v ranges over that one
\* table
_calculate_special_scores(t) ==
    LET beneish == {_calculate_beneish_m_score(t)}
        dupont  == {IF v.error = "none" THEN _calculate_dupont(v) ELSE v : v \in beneish}
        growth  == {IF v.error = "none" THEN _calculate_growth_rates(v) ELSE v :
                       v \in dupont}
        dividend == {IF v.error = "none" THEN _calculate_dividend_metrics(v) ELSE v :
                        v \in growth}
    IN  CHOOSE v \in dividend : TRUE

\* df = df.copy(), then the eight stages in turn; an exception leaves the call
calculate_all_metrics(t) ==
    LET valuation     == {_calculate_valuation_metrics(t)}
        profitability == {IF v.error = "none" THEN _calculate_profitability_metrics(v)
                          ELSE v : v \in valuation}
        liquidity     == {IF v.error = "none" THEN _calculate_liquidity_metrics(v)
                          ELSE v : v \in profitability}
        leverage      == {IF v.error = "none" THEN _calculate_leverage_metrics(v)
                          ELSE v : v \in liquidity}
        efficiency    == {IF v.error = "none" THEN _calculate_efficiency_metrics(v)
                          ELSE v : v \in leverage}
        cashflow      == {IF v.error = "none" THEN _calculate_cashflow_metrics(v)
                          ELSE v : v \in efficiency}
        quality       == {IF v.error = "none" THEN _calculate_quality_metrics(v)
                          ELSE v : v \in cashflow}
        special       == {IF v.error = "none" THEN _calculate_special_scores(v)
                          ELSE v : v \in quality}
    IN  CHOOSE v \in special : TRUE

-----------------------------------------------------------------------------
(* CompanyRanker: scores are exact fractions                                *)

\* config/settings.py SCORING_WEIGHTS, in hundredths
SCORING_WEIGHTS ==
    [value_score |-> 25, growth_score |-> 20, quality_score |-> 20,
     dividend_score |-> 15, momentum_score |-> 10, safety_score |-> 10]

MinOf(S) == CHOOSE x \in S : \A y \in S : x <= y
MaxOf(S) == CHOOSE x \in S : \A y \in S : x >= y

\* _normalize_column over the rows `on` of a column: 50 for all when the
\* values are one value, else the position between min and max times 100
_normalize_column(t, col, on, higher_is_better) ==
    [i \in on |->
        LET vals       == {t.rows[j][col] : j \in on}
            min_val    == MinOf(vals)
            max_val    == MaxOf(vals)
            normalized == Rat((t.rows[i][col] - min_val) * 100, max_val - min_val)
        IN  IF max_val = min_val THEN RInt(50)
            ELSE IF higher_is_better THEN normalized
            ELSE RAdd(RInt(100), <<-normalized[1], normalized[2]>>)]

\* _percentile_rank: series.rank(pct=True) * 100, ties sharing the average rank
_percentile_rank(t, col, on, higher_is_better) ==
    [i \in on |->
        LET less        == Cardinality({j \in on : t.rows[j][col] < t.rows[i][col]})
            equal       == Cardinality({j \in on : t.rows[j][col] = t.rows[i][col]})
            percentiles == Rat((2 * less + equal + 1) * 100, 2 * Cardinality(on))
        IN  IF higher_is_better THEN percentiles
            ELSE RAdd(RInt(100), <<-percentiles[1], percentiles[2]>>)]

\* one weighted part of a factor score
Part(column, valid, transform, higher_is_better, weight) ==
    [column |-> column, valid |-> valid, transform |-> transform,
     higher_is_better |-> higher_is_better, weight |-> weight]

\* x_valid = df[col].notna() & (df[col] > 0), or >= 0, or notna() alone
_valid(t, part) ==
    {i \in 1..Len(t.rows) :
        LET x == t.rows[i][part.column]
        IN  /\ x # NaN
            /\ CASE part.valid = "positive"     -> x > 0
                 [] part.valid = "non_negative" -> x >= 0
                 [] OTHER                       -> TRUE}

\* x_score = 0.0 everywhere, the transformed value on the valid rows
_part_score(t, part) ==
    LET on == _valid(t, part)
        tr == IF part.transform = "percentile"
              THEN _percentile_rank(t, part.column, on, part.higher_is_better)
              ELSE _normalize_column(t, part.column, on, part.higher_is_better)
    IN  [i \in 1..Len(t.rows) |-> IF i \in on THEN tr[i] ELSE RInt(0)]

RECURSIVE _weights_sum(_)
_weights_sum(parts) ==
    IF parts = <<>> THEN 0 ELSE Head(parts).weight + _weights_sum(Tail(parts))

RECURSIVE _weighted(_, _, _)
_weighted(t, parts, i) ==
    IF parts = <<>> THEN RInt(0)
    ELSE RAdd(RScale(_part_score(t, Head(parts))[i], Head(parts).weight, 100),
              _weighted(t, Tail(parts), i))

\* a factor score: the parts whose column the table has, each times its
\* weight, summed, then score / weights_sum * 100
_factor_score(t, parts) ==
    LET present     == SelectSeq(parts, LAMBDA part : part.column \in t.columns)
        weights_sum == _weights_sum(present)
    IN  [i \in 1..Len(t.rows) |->
            IF weights_sum > 0
            THEN RScale(_weighted(t, present, i), 100 * 100, weights_sum)
            ELSE RInt(0)]

CompanyRanker_calculate_value_score(t) ==
    _factor_score(t, <<Part("pe_ratio", "positive", "normalize", FALSE, 35),
                       Part("pb_ratio", "positive", "normalize", FALSE, 35),
                       Part("eps", "positive", "normalize", TRUE, 30)>>)

CompanyRanker_calculate_growth_score(t) ==
    _factor_score(t, <<Part("roe", "positive", "normalize", TRUE, 50),
                       Part("eps_growth", "notna", "normalize", TRUE, 50)>>)

CompanyRanker_calculate_dividend_score(t) ==
    _factor_score(t, <<Part("dividend_yield", "positive", "normalize", TRUE, 100)>>)

CompanyRanker_calculate_quality_score(t) ==
    _factor_score(t, <<Part("roe", "positive", "normalize", TRUE, 50),
                       Part("debt_equity", "non_negative", "normalize", FALSE, 50)>>)

CompanyRanker_calculate_momentum_score(t) ==
    _factor_score(t, <<Part("change_percent", "notna", "percentile", TRUE, 100)>>)

CompanyRanker_calculate_safety_score(t) ==
    _factor_score(t, <<Part("market_cap", "positive", "normalize", TRUE, 50),
                       Part("debt_equity", "non_negative", "normalize", FALSE, 50)>>)

FactorScores == <<"value_score", "growth_score", "dividend_score", "quality_score",
                  "momentum_score", "safety_score">>

RankColumns == {"symbol", "name", "last_traded_price", "value_score", "growth_score",
                "dividend_score", "quality_score", "momentum_score", "safety_score",
                "composite_score", "rank"}

\* series.rank(ascending=False).astype(int): the average of the places the
\* equal values take, cut to an integer
_rank_descending(vals, i) ==
    LET greater == Cardinality({j \in DOMAIN vals : RLt(vals[i], vals[j])})
        equal   == Cardinality({j \in DOMAIN vals : vals[j] = vals[i]})
    IN  (2 * greater + equal + 1) \div 2

\* CompanyRanker.calculate_composite_score: pd.DataFrame() for an empty
\* table; else the six factor scores, their weighted sum, its rank, and the
\* rows sorted by rank
CompanyRanker_calculate_composite_score(t) ==
    LET n == Len(t.rows)
        factor ==
            [value_score    |-> CompanyRanker_calculate_value_score(t),
             growth_score   |-> CompanyRanker_calculate_growth_score(t),
             dividend_score |-> CompanyRanker_calculate_dividend_score(t),
             quality_score  |-> CompanyRanker_calculate_quality_score(t),
             momentum_score |-> CompanyRanker_calculate_momentum_score(t),
             safety_score   |-> CompanyRanker_calculate_safety_score(t)]
        part(i, k)   == RScale(factor[FactorScores[k]][i],
                               SCORING_WEIGHTS[FactorScores[k]], 100)
        composite == [i \in 1..n |->
            RAdd(RAdd(RAdd(RAdd(RAdd(part(i, 1), part(i, 2)), part(i, 3)), part(i, 4)),
                      part(i, 5)), part(i, 6))]
        rank == [i \in 1..n |-> _rank_descending(composite, i)]
        row(i) ==
            [c \in RankColumns |->
                CASE c = "symbol" -> IF Has(t, "symbol") THEN t.rows[i]["symbol"] ELSE ""
                  [] c = "name" -> IF Has(t, "name") THEN t.rows[i]["name"] ELSE ""
                  [] c = "last_traded_price" ->
                        IF Has(t, "last_traded_price")
                        THEN t.rows[i]["last_traded_price"] ELSE 0
                  [] c = "composite_score" -> composite[i]
                  [] c = "rank" -> rank[i]
                  [] OTHER -> factor[c][i]]
    IN  IF n = 0 \/ t.columns = {}
        THEN {Return("calculate_composite_score", {}, <<>>)}
        ELSE {Return("calculate_composite_score", RankColumns,
                     [i \in 1..n |-> row(p[i])]) : p \in SortOrders(rank, FALSE)}

Categories == <<"Value", "Growth", "Dividend", "Quality", "Momentum", "Safety">>

\* max(categories, key=categories.get): the first category of the best score
get_best_category(row) ==
    LET best == CHOOSE k \in 1..6 :
                    /\ \A j \in 1..6 : RLe(row[FactorScores[j]], row[FactorScores[k]])
                    /\ \A j \in 1..(k - 1) : RLt(row[FactorScores[j]], row[FactorScores[k]])
    IN  Categories[best]

SummaryColumns == RankColumns \cup {"value_score_rank", "growth_score_rank",
                                    "dividend_score_rank", "quality_score_rank",
                                    "momentum_score_rank", "safety_score_rank",
                                    "best_category"}

RankOf == [value_score_rank |-> "value_score", growth_score_rank |-> "growth_score",
           dividend_score_rank |-> "dividend_score",
           quality_score_rank |-> "quality_score",
           momentum_score_rank |-> "momentum_score",
           safety_score_rank |-> "safety_score"]

\* get_ranking_summary: the composite table with a rank per factor and the
\* best category; scores[col] on the column-less pd.DataFrame() is a KeyError
get_ranking_summary(t) ==
    {IF ranked.columns = {}
     THEN Raise("get_ranking_summary", "KeyError")
     ELSE Return("get_ranking_summary", SummaryColumns,
            [i \in 1..Len(ranked.rows) |->
                [c \in SummaryColumns |->
                    IF c \in RankColumns THEN ranked.rows[i][c]
                    ELSE IF c = "best_category" THEN get_best_category(ranked.rows[i])
                    ELSE _rank_descending(
                            [j \in 1..Len(ranked.rows) |-> ranked.rows[j][RankOf[c]]], i)]])
        : ranked \in CompanyRanker_calculate_composite_score(t)}

-----------------------------------------------------------------------------
(* SpecTable: a caller hands a table to one of the table operations         *)

InitTable ==
    /\ pc = "table"
    /\ \E cols \in ColumnSets : \E rows \in RowSeqs :
          /\ cols = {} => rows = <<>>
          /\ df = MakeTable(cols, rows)
    /\ edits = 0
    /\ fpLow \in BOOLEAN
    /\ ret = NoRet
    /\ data = SymbolOnly
    /\ scores = NoCall
    /\ args = NoArgs
    /\ verdict = NoVerdict
    /\ calls = <<>>

\* df = df.drop(columns=[c])
DropColumn(c) ==
    /\ pc = "table"
    /\ edits < MaxDropped
    /\ c \in df.columns
    /\ c # "symbol"
    /\ df' = MakeTable(df.columns \ {c}, df.rows)
    /\ edits' = edits + 1
    /\ UNCHANGED <<pc, data, fpLow, scores, args, verdict, ret, calls>>

\* result = ComprehensiveInvestmentAnalyzer().analyze_dataframe(df)
AnalyzeDataframe ==
    /\ pc = "table"
    /\ ret' \in analyze_dataframe(df, fpLow)
    /\ pc' = "done"
    /\ UNCHANGED <<data, edits, fpLow, scores, args, verdict, df, calls>>

\* result = AdvancedMetrics().calculate_all_metrics(df)
CalculateAllMetrics ==
    /\ pc = "table"
    /\ ret' = calculate_all_metrics(df)
    /\ pc' = "done"
    /\ UNCHANGED <<data, edits, fpLow, scores, args, verdict, df, calls>>

\* result = StockScreener(df).screen(criteria)
Screen(criteria) ==
    /\ pc = "table"
    /\ ret' = screen(df, criteria)
    /\ pc' = "done"
    /\ UNCHANGED <<data, edits, fpLow, scores, args, verdict, df, calls>>

\* result = CompanyRanker(df).calculate_composite_score()
RankerComposite ==
    /\ pc = "table"
    /\ ret' \in CompanyRanker_calculate_composite_score(df)
    /\ pc' = "done"
    /\ UNCHANGED <<data, edits, fpLow, scores, args, verdict, df, calls>>

\* result = CompanyRanker(df).get_ranking_summary()
RankingSummary ==
    /\ pc = "table"
    /\ ret' \in get_ranking_summary(df)
    /\ pc' = "done"
    /\ UNCHANGED <<data, edits, fpLow, scores, args, verdict, df, calls>>

CriteriaLists ==
    {<<>>} \cup {<<a>> : a \in SampleCriteria}
           \cup {<<a, b>> : a \in SampleCriteria, b \in SampleCriteria}

NextTable ==
    \/ \E c \in Columns : DropColumn(c)
    \/ AnalyzeDataframe
    \/ CalculateAllMetrics
    \/ \E criteria \in CriteriaLists : Screen(criteria)
    \/ RankerComposite
    \/ RankingSummary

SpecTable == InitTable /\ [][NextTable]_vars

-----------------------------------------------------------------------------
(* SpecCalls: a caller keeps one ComprehensiveInvestmentAnalyzer and one    *)
(* AdvancedMetricsCalculator and calls them in any order.  Neither method   *)
(* assigns an attribute of its object (thresholds and risk_free_rate are    *)
(* set by __init__ alone), so a call reads nothing but its argument.        *)

\* calls made on the two objects
MaxCalls == 3

InitCalls ==
    /\ pc = "calls"
    /\ calls = <<>>
    /\ fpLow \in BOOLEAN
    /\ data = SymbolOnly
    /\ edits = 0
    /\ scores = NoCall
    /\ args = NoArgs
    /\ verdict = NoVerdict
    /\ df = NoTable
    /\ ret = NoRet

\* scores = analyzer.analyze_company(r)
CallAnalyzeCompany(r) ==
    /\ pc = "calls"
    /\ Len(calls) < MaxCalls
    /\ data' = r
    /\ scores' = analyze_company(r, fpLow)
    /\ calls' = Append(calls, [op |-> "analyze_company", input |-> r,
                               output |-> scores'])
    /\ UNCHANGED <<pc, edits, fpLow, args, verdict, df, ret>>

\* result = calculator.calculate_all_metrics(t)
CallCalculateAllMetrics(t) ==
    /\ pc = "calls"
    /\ Len(calls) < MaxCalls
    /\ df' = t
    /\ ret' = calculate_all_metrics(t)
    /\ calls' = Append(calls, [op |-> "calculate_all_metrics", input |-> t,
                               output |-> ret'])
    /\ UNCHANGED <<pc, data, edits, fpLow, scores, args, verdict>>

\* the records of the analyzer, and one-row tables of every column set that
\* has a column, in any order
SpecCalls ==
    InitCalls /\ [][\/ \E r \in BaseRecords : CallAnalyzeCompany(r)
                    \/ \E cols \in ColumnSets \ {{}} : \E row \in {StrongRow, HollowRow} :
                          CallCalculateAllMetrics(MakeTable(cols, <<row>>))]_vars

-----------------------------------------------------------------------------
(* SpecMetrics: calculate_all_metrics on one company whose cash-flow, debt  *)
(* and interest figures vary, the debt and interest columns present or not  *)

\* one company, the figures the cash-flow, leverage and quality ratios are
\* computed from each taking a few values
MetricsRows ==
    {[StrongRow EXCEPT !["operating_cash_flow"] = ocf, !["net_profit"] = np,
                       !["total_assets"] = ta, !["free_cash_flow"] = fcf,
                       !["total_debt"] = td, !["interest_expense"] = ie,
                       !["operating_income"] = oi, !["shares_outstanding"] = so] :
        ocf \in {-100, 0, 60}, np \in {0, 50, NaN}, ta \in {0, 100},
        fcf \in {0, 45, 60}, td \in {-10, 0, 40, NaN}, ie \in {-3, 0, 3, NaN},
        oi \in {0, 40}, so \in {0, 3}}

\* the table has every column, or is a sheet without interest, without debt,
\* without operating income, without the share count, without cash and
\* inventory
InitMetrics ==
    /\ pc = "table"
    /\ \E absent \in {{}, {"interest_expense"}, {"interest_expense", "total_debt"},
                      {"interest_expense", "total_debt", "operating_income"},
                      {"shares_outstanding"}, {"cash", "inventory"}} :
          \E row \in MetricsRows : df = MakeTable(Columns \ absent, <<row>>)
    /\ edits = 0
    /\ fpLow = FALSE
    /\ ret = NoRet
    /\ data = SymbolOnly
    /\ scores = NoCall
    /\ args = NoArgs
    /\ verdict = NoVerdict
    /\ calls = <<>>

\* df2 = calculate_all_metrics(calculate_all_metrics(df)): the table a call
\* returned is handed to a second call
CalculateAllMetricsAgain ==
    /\ pc = "done"
    /\ ret.op = "calculate_all_metrics" /\ ret.error = "none"
    /\ ret' = calculate_all_metrics([columns |-> ret.columns, rows |-> ret.rows])
    /\ pc' = "again"
    /\ UNCHANGED <<data, edits, fpLow, scores, args, verdict, df, calls>>

SpecMetrics == InitMetrics /\ [][CalculateAllMetrics \/ CalculateAllMetricsAgain]_vars

-----------------------------------------------------------------------------
(* SpecSort: the two operations that sort their result, on longer tables,   *)
(* a company listed under a second symbol among the rows                    *)

\* rows of the largest sorted table
MaxSortRows == 3

InitSort ==
    /\ pc = "table"
    /\ \E cols \in ColumnSets : \E n \in 0..MaxSortRows :
       \E rows \in [1..n -> SampleRows \cup {[WeakRow EXCEPT !["symbol"] = "S5"]}] :
          /\ \A i, j \in 1..n : i # j => rows[i] # rows[j]
          /\ cols = {} => n = 0
          /\ df = MakeTable(cols, rows)
    /\ edits = 0
    /\ fpLow \in BOOLEAN
    /\ ret = NoRet
    /\ data = SymbolOnly
    /\ scores = NoCall
    /\ args = NoArgs
    /\ verdict = NoVerdict
    /\ calls = <<>>

SpecSort == InitSort /\ [][AnalyzeDataframe \/ RankerComposite]_vars

-----------------------------------------------------------------------------
(* SpecScreen: a caller hands the screener a table and a list of criteria   *)

\* criteria in the longest list
MaxCriteria == 3

\* the table has every column or is a price sheet; the criteria are distinct
InitScreen ==
    /\ pc = "table"
    /\ \E cols \in {Columns, {"symbol", "pe_ratio", "market_cap", "last_traded_price",
                              "revenue"}} :
          \E rows \in RowSeqs : df = MakeTable(cols, rows)
    /\ \E n \in 0..MaxCriteria : \E criteria \in [1..n -> SampleCriteria] :
          /\ \A i, j \in 1..n : i # j => criteria[i] # criteria[j]
          /\ args = [criteria |-> criteria]
    /\ edits = 0
    /\ fpLow = FALSE
    /\ ret = NoRet
    /\ data = SymbolOnly
    /\ scores = NoCall
    /\ verdict = NoVerdict
    /\ calls = <<>>

SpecScreen == InitScreen /\ [][Screen(args.criteria)]_vars

-----------------------------------------------------------------------------
(* SpecFrame: a caller holds a record or a table and hands it to one of the *)
(* scoring, ratio, screening or ranking operations.  Each of them works on  *)
(* values it builds (df.copy(), df.drop(), df[mask], pd.DataFrame(...)) and *)
(* assigns to no key or column of what it was handed.                       *)

\* a strategy that assigns its column to the table it was handed
ScreenStrategy_inplace(name) ==
    /\ pc = "table"
    /\ ret' \in screen_strategy(df, name)
    /\ df' = [columns |-> ret'.columns, rows |-> ret'.rows]
    /\ pc' = "done"
    /\ UNCHANGED <<data, edits, fpLow, scores, args, verdict, calls>>

\* result = StockScreener(df).screen_...()
ScreenStrategy(name) ==
    /\ pc = "table"
    /\ ret' \in screen_strategy(df, name)
    /\ pc' = "done"
    /\ UNCHANGED <<data, edits, fpLow, scores, args, verdict, df, calls>>

\* the record is a base record; the table may list a company near its
\* 52-week low and one whose low is 0
InitFrame ==
    /\ \/ /\ pc = "input"
          /\ data \in BaseRecords
          /\ df = NoTable
       \/ /\ pc = "table"
          /\ data = SymbolOnly
          /\ \E cols \in ColumnSets : \E n \in 0..MaxRows :
             \E rows \in [1..n -> SampleRows
                                    \cup {[WeakRow EXCEPT !["symbol"] = "S5",
                                                          !["52_week_low"] = 950],
                                          [StrongRow EXCEPT !["symbol"] = "S6",
                                                            !["52_week_low"] = 0]}] :
                /\ \A i, j \in 1..n : i # j => rows[i] # rows[j]
                /\ cols = {} => n = 0
                /\ df = MakeTable(cols, rows)
    /\ edits = 0
    /\ fpLow \in BOOLEAN
    /\ scores = NoCall
    /\ args = NoArgs
    /\ verdict = NoVerdict
    /\ ret = NoRet
    /\ calls = <<>>

SpecFrame ==
    InitFrame /\ [][\/ AnalyzeCompany
                    \/ AnalyzeDataframe
                    \/ CalculateAllMetrics
                    \/ \E criteria \in CriteriaLists : Screen(criteria)
                    \/ \E name \in {"screen_value_investing", "screen_dividend_investing",
                                    "screen_growth_investing", "screen_garp",
                                    "screen_quality_investing",
                                    "screen_momentum_investing", "screen_bargain_stocks",
                                    "screen_blue_chips", "screen_52_week_low"} :
                          ScreenStrategy(name)
                    \/ RankerComposite]_vars

-----------------------------------------------------------------------------
(* SpecPortfolio: PortfolioSuggester.suggest_balanced_portfolio on tables    *)
(* whose companies belong to two sectors                                     *)

\* the largest num_stocks and max_per_sector asked for
MaxStocks == 3

\* suggest_balanced_portfolio: the ranked scores, their first num_stocks rows
\* when the table has no sector column; else the sector merged in by symbol
\* and the loop over the rows in rank order, which appends a row whose sector
\* has fewer than max_per_sector rows chosen and then leaves as soon as
\* len(selected) >= num_stocks
suggest_balanced_portfolio(t, num_stocks, max_per_sector) ==
    LET sector_of(symbol) ==
            t.rows[CHOOSE i \in 1..Len(t.rows) : t.rows[i]["symbol"] = symbol]["sector"]
        sector_counts(selected, sector) ==
            Cardinality({k \in 1..Len(selected) : selected[k]["sector"] = sector})
        RECURSIVE iterrows(_, _)
        iterrows(rows, selected) ==
            IF rows = <<>> THEN selected
            ELSE LET row == Head(rows)
                     chosen == IF sector_counts(selected, row["sector"]) < max_per_sector
                               THEN Append(selected, row) ELSE selected
                 IN  IF Len(chosen) >= num_stocks THEN chosen
                     ELSE iterrows(Tail(rows), chosen)
        portfolio(ranked) ==
            IF ranked.error # "none" THEN ranked
            ELSE IF ~Has(t, "sector")
            THEN Return("suggest_balanced_portfolio", ranked.columns,
                        SubSeq(ranked.rows, 1, Min2(num_stocks, Len(ranked.rows))))
            ELSE LET merged == [i \in 1..Len(ranked.rows) |->
                                   [sector |-> sector_of(ranked.rows[i]["symbol"])]
                                       @@ ranked.rows[i]]
                     selected == iterrows(merged, <<>>)
                 IN  Return("suggest_balanced_portfolio",
                            IF selected = <<>> THEN {}
                            ELSE ranked.columns \cup {"sector"},
                            selected)
    IN  {portfolio(ranked) : ranked \in CompanyRanker_calculate_composite_score(t)}

\* result = PortfolioSuggester(CompanyRanker(df)).suggest_balanced_portfolio(
\*              num_stocks, max_per_sector)
SuggestBalancedPortfolio ==
    /\ pc = "table"
    /\ ret' \in suggest_balanced_portfolio(df, args.num_stocks, args.max_per_sector)
    /\ pc' = "done"
    /\ UNCHANGED <<data, edits, fpLow, scores, args, verdict, df, calls>>

\* one to MaxSortRows companies, each in one of two sectors, or a table with
\* no sector column; num_stocks and max_per_sector from 0 on
SpecPortfolio ==
    /\ pc = "table"
    /\ \E n \in 1..MaxSortRows : \E rows \in [1..n -> SampleRows] :
       \E sectors \in [1..n -> {"Banks", "Hotels", "none"}] :
          /\ \A i, j \in 1..n : i # j => rows[i] # rows[j]
          /\ \A i, j \in 1..n : (sectors[i] = "none") = (sectors[j] = "none")
          /\ df = IF sectors[1] = "none" THEN MakeTable(Columns, rows)
                  ELSE [columns |-> Columns \cup {"sector"},
                        rows |-> [i \in 1..n |-> [sector |-> sectors[i]] @@ rows[i]]]
    /\ args \in [num_stocks : 0..MaxStocks, max_per_sector : 0..MaxStocks]
    /\ edits = 0
    /\ fpLow = FALSE
    /\ ret = NoRet
    /\ data = SymbolOnly
    /\ scores = NoCall
    /\ verdict = NoVerdict
    /\ calls = <<>>
    /\ [][SuggestBalancedPortfolio]_vars

-----------------------------------------------------------------------------
(* SpecRequest: CSEAPIClient._make_request, one step for _rate_limit, one    *)
(* for each pass of the try block and one for each backoff sleep; calls is   *)
(* the log of what the call did, args holds retries, the seconds since the   *)
(* last request and the loop variable                                        *)

\* the largest retries argument
MaxRetries == 3

\* config/settings.py: seconds between requests
REQUEST_DELAY == 1

\* the call with the backoff sleep taken after every failed attempt
_make_request_sleep_always ==
    \/ /\ pc = "call"
       /\ calls' = <<[ev |-> "rate_limit",
                      seconds |-> IF args.elapsed < REQUEST_DELAY
                                  THEN REQUEST_DELAY - args.elapsed ELSE 0]>>
       /\ pc' = "loop"
       /\ UNCHANGED <<data, edits, fpLow, scores, args, verdict, df, ret>>
    \/ /\ pc = "loop" /\ args.attempt >= args.retries
       /\ ret' = [op |-> "_make_request", error |-> "none", value |-> "None"]
       /\ pc' = "returned"
       /\ UNCHANGED <<data, edits, fpLow, scores, args, verdict, df, calls>>
    \/ /\ pc = "loop" /\ args.attempt < args.retries
       /\ \E response \in {"error", "object", "null", "text"} :
             /\ calls' = Append(calls, [ev |-> "request", attempt |-> args.attempt,
                                        response |-> response])
             /\ IF response = "error"
                THEN IF TRUE
                     THEN pc' = "except" /\ ret' = ret
                     ELSE /\ ret' = [op |-> "_make_request", error |-> "none",
                                     value |-> "None"]
                          /\ pc' = "returned"
                ELSE /\ ret' = [op |-> "_make_request", error |-> "none",
                                value |-> CASE response = "object" -> "dict"
                                            [] response = "null" -> "None"
                                            [] response = "text" -> "content"]
                     /\ pc' = "returned"
       /\ UNCHANGED <<data, edits, fpLow, scores, args, verdict, df>>
    \/ /\ pc = "except"
       /\ calls' = Append(calls, [ev |-> "sleep", seconds |-> 2 ^ args.attempt])
       /\ args' = [args EXCEPT !.attempt = @ + 1]
       /\ pc' = "loop"
       /\ UNCHANGED <<data, edits, fpLow, scores, verdict, df, ret>>

\* A pass of the try block meets a RequestException ("error": a connection
\* error, a timeout or the HTTPError of raise_for_status) or a good status
\* with a body that is a JSON object, the JSON value null, or no JSON at all.
\* self._rate_limit(); for attempt in range(retries): try the request and
\* return response.json() (None for the body null) or {"content": text};
\* on a RequestException sleep 2 ** attempt and go on when
\* attempt < retries - 1, else return None; return None after the loop
_make_request ==
    \/ /\ pc = "call"
       /\ calls' = <<[ev |-> "rate_limit",
                      seconds |-> IF args.elapsed < REQUEST_DELAY
                                  THEN REQUEST_DELAY - args.elapsed ELSE 0]>>
       /\ pc' = "loop"
       /\ UNCHANGED <<data, edits, fpLow, scores, args, verdict, df, ret>>
    \/ /\ pc = "loop" /\ args.attempt >= args.retries
       /\ ret' = [op |-> "_make_request", error |-> "none", value |-> "None"]
       /\ pc' = "returned"
       /\ UNCHANGED <<data, edits, fpLow, scores, args, verdict, df, calls>>
    \/ /\ pc = "loop" /\ args.attempt < args.retries
       /\ \E response \in {"error", "object", "null", "text"} :
             /\ calls' = Append(calls, [ev |-> "request", attempt |-> args.attempt,
                                        response |-> response])
             /\ IF response = "error"
                THEN IF args.attempt < args.retries - 1
                     THEN pc' = "except" /\ ret' = ret
                     ELSE /\ ret' = [op |-> "_make_request", error |-> "none",
                                     value |-> "None"]
                          /\ pc' = "returned"
                ELSE /\ ret' = [op |-> "_make_request", error |-> "none",
                                value |-> CASE response = "object" -> "dict"
                                            [] response = "null" -> "None"
                                            [] response = "text" -> "content"]
                     /\ pc' = "returned"
       /\ UNCHANGED <<data, edits, fpLow, scores, args, verdict, df>>
    \/ /\ pc = "except"
       /\ calls' = Append(calls, [ev |-> "sleep", seconds |-> 2 ^ args.attempt])
       /\ args' = [args EXCEPT !.attempt = @ + 1]
       /\ pc' = "loop"
       /\ UNCHANGED <<data, edits, fpLow, scores, verdict, df, ret>>

\* a call with retries from 0 on, made any time after the last request
SpecRequest ==
    /\ pc = "call"
    /\ args \in [method : {"GET", "POST"}, retries : 0..MaxRetries,
                 elapsed : {0, 1, 5}, attempt : {0}]
    /\ calls = <<>>
    /\ ret = NoRet
    /\ edits = 0
    /\ fpLow = FALSE
    /\ data = SymbolOnly
    /\ scores = NoCall
    /\ verdict = NoVerdict
    /\ df = NoTable
    /\ [][_make_request]_vars

\* every blocking call comes back: session.get and session.post within
\* REQUEST_TIMEOUT, time.sleep after its seconds
SpecRequestFair == SpecRequest /\ WF_vars(_make_request)

-----------------------------------------------------------------------------
(* Claims                                                                  *)

ScoreNames == {"value_score", "quality_score", "safety_score", "dividend_score",
               "growth_score", "momentum_score"}

Analyzed == pc = "analyzed" /\ scores.error = "none"

\* a record whose present values are all finite numbers (or None, or strings)
FiniteRecord == \A f \in Fields : data[f] # NaN

\* C1: for every record of finite values, each of the six sub-scores that
\* analyze_company returns, and the composite score, is an integer in 0..100.
C1_ScoresInRange ==
    (Analyzed /\ FiniteRecord) =>
        /\ \A k \in ScoreNames : scores[k] \in 0..100
        /\ scores.composite_score \in 0..100

\* a negative P/E was analysed and still earned the points of the pe <= 10 rung
C1_Witness ==
    /\ Analyzed
    /\ data["pe_ratio"] = -500
    /\ scores.value_score >= 60
    /\ scores.composite_score > 0

Letters == {"A", "B", "C", "D", "F"}

\* C2: for every composite score in 0..100, Piotroski score in 0..9 and Altman
\* value, determine_grade returns one of the five letters A, B, C, D, F.
C2_GradeIsLetter ==
    pc \in {"graded", "regraded"} => verdict.investment_grade \in Letters

\* C3: whenever the Altman score is below 1.5, generate_recommendation returns
\* 'Avoid - High Bankruptcy Risk', whatever the composite score, the Piotroski
\* score and the Graham upside are.
C3_DistressFirst ==
    (pc \in {"graded", "regraded"} /\ Lt(args.altman, 150)) =>
        verdict.recommendation = "Avoid - High Bankruptcy Risk"

\* the best composite, Piotroski and upside with an Altman score of 1.49
C3_Witness ==
    /\ pc = "graded"
    /\ args.altman = 149
    /\ args.composite = 100
    /\ args.piotroski = 9
    /\ args.graham_upside = 2001
    /\ verdict.recommendation = "Avoid - High Bankruptcy Risk"

\* C4: with Piotroski and Altman fixed, grading a higher composite score never
\* gives a worse letter than grading the lower one (letters ordered by their
\* code points, A best).
C4_GradeMonotone ==
    [][pc' = "regraded" =>
         Ord(verdict'.investment_grade) <= Ord(verdict.investment_grade)]_vars

\* a regrade that moved a distressed, weak-Piotroski record up to C
C4_Witness ==
    /\ pc = "regraded"
    /\ args.composite >= 80
    /\ args.piotroski <= 3
    /\ args.altman = 180
    /\ verdict.investment_grade = "C"

ArgSum == Min2(25 * args["value"] + 25 * args["quality"] + 20 * args["safety"]
               + 15 * args["dividend"] + 10 * args["growth"] + 5 * args["momentum"],
               10000)

\* C5 as stated: the composite score equals the weighted sum
\* value*0.25 + quality*0.25 + safety*0.20 + dividend*0.15 + growth*0.10 +
\* momentum*0.05 (clamped to at most 100) to within 1e-6.  Stated for the
\* calls in which floating-point rounding plays no part.
C5_EqualsWeightedSum ==
    (pc = "combined" /\ ~fpLow) => 100 * verdict.composite_score = ArgSum

\* C5 amended: the composite score is the weighted sum (clamped to at most
\* 100) truncated to an integer: the integer part of the sum, or one less
\* than the sum when the sum is a positive integer and the floating-point
\* products land below it.
C5_TruncatedWeightedSum ==
    pc = "combined" =>
        \/ verdict.composite_score = ArgSum \div 100
        \/ /\ ArgSum > 0
           /\ ArgSum % 100 = 0
           /\ verdict.composite_score = ArgSum \div 100 - 1

\* a sum with a fractional part was truncated
C5_Witness ==
    /\ pc = "combined"
    /\ ArgSum % 100 # 0
    /\ verdict.composite_score > 0
    /\ 100 * verdict.composite_score < ArgSum

FullResult == {"error", "piotroski_f_score", "altman_z_score", "graham_number",
               "graham_upside", "magic_formula_rank", "quality_score",
               "safety_score", "value_score", "dividend_score", "growth_score",
               "momentum_score", "composite_score", "investment_grade",
               "recommendation"}

\* what the defaults alone give: {"symbol": "TEST"}
DefaultScores ==
    [error |-> "none", piotroski_f_score |-> 0, altman_z_score |-> 300,
     graham_number |-> 0, graham_upside |-> 0, magic_formula_rank |-> 77,
     quality_score |-> 0, safety_score |-> 30, value_score |-> 10,
     dividend_score |-> 0, growth_score |-> 15, momentum_score |-> 15,
     composite_score |-> 10, investment_grade |-> "F",
     recommendation |-> "Avoid - Weak Financials"]

\* C6: analyze_company never raises on a record of finite values from which
\* any subset of the optional fields is absent, and returns all six
\* sub-scores, the composite, a grade and a recommendation; with every
\* optional field absent these are the values the defaults give.
C6_FallbackTotal ==
    (pc = "analyzed" /\ FiniteRecord) =>
        /\ scores.error = "none"
        /\ DOMAIN scores = FullResult
        /\ (data = SymbolOnly => scores = DefaultScores)

\* the record with only its symbol was analysed
C6_Witness ==
    /\ pc = "analyzed"
    /\ data = SymbolOnly
    /\ scores.error = "none"
    /\ scores.recommendation = "Avoid - Weak Financials"

\* C7: calculate_all_metrics completes without raising when any subset of
\* the input columns other than symbol (pe_ratio, market_cap,
\* last_traded_price, roe, roa, total_debt, operating_income, ...) is absent
\* from the table.
C7_MetricsTolerateAbsentColumns ==
    (pc = "done" /\ ret.op = "calculate_all_metrics" /\ "symbol" \in df.columns) =>
        ret.error = "none"

\* C8: on a table with at least one row, NaN cells included,
\* analyze_dataframe completes without raising and every row of the result
\* carries every score column, the magic-formula rank among them.
C8_AnalyzeDataframeTotal ==
    (pc = "done" /\ ret.op = "analyze_dataframe" /\ Len(df.rows) > 0) =>
        /\ ret.error = "none"
        /\ Len(ret.rows) = Len(df.rows)
        /\ \A i \in 1..Len(ret.rows) : ScoreColumns \subseteq DOMAIN ret.rows[i]

\* C9: on a table with no row, analyze_dataframe, calculate_all_metrics,
\* StockScreener.screen, CompanyRanker.calculate_composite_score and
\* get_ranking_summary each return an empty result without raising.
C9_EmptyTableSafe ==
    (pc = "done" /\ Len(df.rows) = 0) =>
        /\ ret.error = "none"
        /\ Len(ret.rows) = 0

RankerScores == {"value_score", "growth_score", "dividend_score", "quality_score",
                 "momentum_score", "safety_score", "composite_score"}

\* C10: each of CompanyRanker's six factor scores and its composite score
\* lies in [0, 100] for every row.
C10_RankerScoresInRange ==
    (pc = "done" /\ ret.op \in {"calculate_composite_score", "get_ranking_summary"}
       /\ ret.error = "none") =>
        \A i \in 1..Len(ret.rows) : \A k \in RankerScores :
            RLe(RInt(0), ret.rows[i][k]) /\ RLe(ret.rows[i][k], RInt(100))

\* the row of a ranked table that carries a symbol
RowOf(rows, symbol) ==
    rows[CHOOSE i \in 1..Len(rows) : rows[i]["symbol"] = symbol]

\* C11: the six factor scores and the composite score that
\* CompanyRanker.calculate_composite_score gives a record depend only on that
\* record: ranked in a table with other records, the record has the scores it
\* has when ranked in a table of its own.
C11_RankerRowIndependent ==
    (pc = "done" /\ ret.op = "calculate_composite_score" /\ ret.error = "none"
       /\ "symbol" \in df.columns) =>
        \A i \in 1..Len(df.rows) :
            \A alone \in CompanyRanker_calculate_composite_score(
                             MakeTable(df.columns, <<df.rows[i]>>)) :
                \A k \in RankerScores :
                    RowOf(ret.rows, df.rows[i]["symbol"])[k] = alone.rows[1][k]

ValueLadderPE(pe) ==
    IF pe <= 800 THEN 35 ELSE IF pe <= 1000 THEN 30 ELSE IF pe <= 1200 THEN 25
    ELSE IF pe <= 1500 THEN 20 ELSE IF pe <= 2000 THEN 15 ELSE IF pe <= 2500 THEN 10
    ELSE IF pe <= 3000 THEN 5 ELSE 0

ValueLadderPB(pb) ==
    IF pb <= 70 THEN 35 ELSE IF pb <= 100 THEN 30 ELSE IF pb <= 120 THEN 25
    ELSE IF pb <= 150 THEN 20 ELSE IF pb <= 200 THEN 15 ELSE IF pb <= 250 THEN 10
    ELSE IF pb <= 300 THEN 5 ELSE 0

ValueLadderYield(y) ==
    IF y >= 800 THEN 30 ELSE IF y >= 600 THEN 25 ELSE IF y >= 500 THEN 20
    ELSE IF y >= 400 THEN 15 ELSE IF y >= 300 THEN 10 ELSE IF y >= 200 THEN 5 ELSE 0

\* C13: calculate_value_score is the sum, clamped to 100, of the P/E ladder
\* (35 for every P/E <= 8, then 30, 25, 20, 15, 10, 5 up to 10, 12, 15, 20,
\* 25, 30, else 0), the P/B ladder (35 for every P/B <= 0.7, then 30 ... 5 up
\* to 1.0, 1.2, 1.5, 2.0, 2.5, 3.0, else 0) and the dividend-yield ladder (30,
\* 25, 20, 15, 10, 5 from 8, 6, 5, 4, 3, 2 up, else 0).
C13_ValueLadders ==
    (pc = "analyzed" /\ scores.error = "none"
       /\ \A f \in {"pe_ratio", "pb_ratio", "dividend_yield"} : data[f] < StrBase) =>
        scores.value_score =
            Min2(ValueLadderPE(data["pe_ratio"]) + ValueLadderPB(data["pb_ratio"])
                 + ValueLadderYield(data["dividend_yield"]), 100)

\* C14: for a record with operating_cash_flow 0, net_profit 0 and
\* total_assets 100, accruals_ratio is 0 and earnings_quality is the base
\* value 50: no bonus is added.
C14_BaseEarningsQuality ==
    (pc = "done" /\ ret.op = "calculate_all_metrics" /\ ret.error = "none"
       /\ df.rows[1]["operating_cash_flow"] = 0 /\ df.rows[1]["net_profit"] = 0
       /\ df.rows[1]["total_assets"] = 100) =>
        /\ ret.rows[1]["accruals_ratio"] = RInt(0)
        /\ ret.rows[1]["earnings_quality"] = 50

\* the interest expense used for the row of a table is at most 0
NoInterest ==
    IF "interest_expense" \in df.columns THEN df.rows[1]["interest_expense"] <= 0
    ELSE IF "total_debt" \in df.columns THEN df.rows[1]["total_debt"] <= 0
    ELSE TRUE

\* C15: whenever the interest expense used for a row (the given
\* interest_expense, or total_debt * 0.08 when it is absent) is <= 0,
\* interest_coverage is the sentinel 999 and no division error is raised;
\* likewise cf_to_debt is 999 whenever total_debt <= 0.
C15_NoDebtSentinel ==
    (pc = "done" /\ ret.op = "calculate_all_metrics") =>
        /\ NoInterest => ret.error # "ZeroDivisionError"
        /\ (NoInterest /\ ret.error = "none") =>
               ret.rows[1]["interest_coverage"] = RInt(999)
        /\ (ret.error = "none" /\ df.rows[1]["total_debt"] <= 0) =>
               ret.rows[1]["cf_to_debt"] = RInt(999)

\* C16: calculate_graham_number returns 0 whenever EPS <= 0 or NAV <= 0, and
\* otherwise the square root of 22.5 * EPS * NAV rounded to two decimals (no
\* more than 0.005 from the root); calculate_graham_upside returns 0 whenever
\* the price <= 0 or the Graham number is 0, and otherwise
\* (Graham number - price) / price * 100 rounded to two decimals.
C16_GrahamNumber ==
    (Analyzed /\ \A f \in {"eps", "nav", "last_traded_price"} : data[f] # NaN) =>
        LET eps    == _get_float(data, "eps", 0)
            nav    == _get_float(data, "nav", 0)
            price  == _get_float(data, "last_traded_price", 0)
            graham == scores.graham_number
            upside == scores.graham_upside
        IN  /\ (eps <= 0 \/ nav <= 0) => graham = 0
            /\ (eps > 0 /\ nav > 0) =>
                   /\ graham >= 0
                   /\ (2 * graham - 1) * (2 * graham - 1) <= 90 * eps * nav
                   /\ 90 * eps * nav < (2 * graham + 1) * (2 * graham + 1)
            /\ (price <= 0 \/ graham = 0) => upside = 0
            /\ (price > 0 /\ graham > 0) =>
                   2 * Abs(upside * price - 10000 * (graham - price)) <= price

\* EPS 10 and NAV 40 at a price of 50: Graham number 94.87, upside 89.74 %
C16_Witness ==
    /\ Analyzed
    /\ data["eps"] = 1000 /\ data["nav"] = 4000 /\ data["last_traded_price"] = 5000
    /\ scores.graham_number = 9487
    /\ scores.graham_upside = 8974

\* the result holds every row of the table exactly once, its cells kept
EveryRowOnce(kept) ==
    /\ Len(ret.rows) = Len(df.rows)
    /\ \A i \in 1..Len(df.rows) :
          /\ Cardinality({j \in 1..Len(ret.rows) :
                             ret.rows[j]["symbol"] = df.rows[i]["symbol"]}) = 1
          /\ \A c \in kept :
                RowOf(ret.rows, df.rows[i]["symbol"])[c] = df.rows[i][c]

\* C17: the table returned by analyze_dataframe contains every input row
\* exactly once, in non-increasing order of composite_score; the table
\* returned by CompanyRanker.calculate_composite_score contains every input
\* row exactly once, in non-increasing order of composite score, with rank
\* non-decreasing down the table, equal ranks for equal composite scores and
\* different ranks for different composite scores.
C17_SortedByComposite ==
    (pc = "done" /\ ret.error = "none") =>
        /\ ret.op = "analyze_dataframe" =>
              /\ EveryRowOnce(df.columns \ ScoreColumns)
              /\ \A i \in 1..(Len(ret.rows) - 1) :
                    ret.rows[i]["composite_score"] >= ret.rows[i + 1]["composite_score"]
        /\ ret.op = "calculate_composite_score" =>
              /\ EveryRowOnce(df.columns \cap {"symbol", "last_traded_price"})
              /\ \A i \in 1..(Len(ret.rows) - 1) :
                    /\ RLe(ret.rows[i + 1]["composite_score"],
                           ret.rows[i]["composite_score"])
                    /\ ret.rows[i]["rank"] <= ret.rows[i + 1]["rank"]
              /\ \A i, j \in 1..Len(ret.rows) :
                    (ret.rows[i]["composite_score"] = ret.rows[j]["composite_score"])
                        <=> (ret.rows[i]["rank"] = ret.rows[j]["rank"])

\* three companies ranked: two share a composite score and a rank, the third
\* stands apart and was moved by the sort
C17_Witness ==
    /\ pc = "done" /\ ret.op = "calculate_composite_score" /\ ret.error = "none"
    /\ Len(ret.rows) = 3
    /\ ret.rows[1]["symbol"] # df.rows[1]["symbol"]
    /\ \E i, j \in 1..3 :
          /\ i # j /\ ret.rows[i]["rank"] = ret.rows[j]["rank"]
          /\ \E k \in 1..3 : ret.rows[k]["rank"] # ret.rows[i]["rank"]

\* C18: StockScreener.screen returns the same set of rows for every
\* permutation of the same list of criteria: the order in which criteria are
\* applied changes only the intermediate counts, never the final result.
C18_ScreenOrderFree ==
    (pc = "done" /\ ret.op = "screen") =>
        \A p \in Perms(Len(args.criteria)) :
            LET other == screen(df, [i \in 1..Len(args.criteria) |-> args.criteria[p[i]]])
            IN  /\ other.error = ret.error
                /\ other.columns = ret.columns
                /\ {other.rows[i] : i \in 1..Len(other.rows)}
                      = {ret.rows[i] : i \in 1..Len(ret.rows)}

\* three criteria that leave one of two companies, the first of them passing
\* a different number of rows than the second
C18_Witness ==
    /\ pc = "done" /\ ret.op = "screen" /\ ret.error = "none"
    /\ Len(args.criteria) = 3
    /\ Len(df.rows) = 2 /\ Len(ret.rows) = 1
    /\ Len(_apply_criterion(df, args.criteria[1]).rows)
          # Len(_apply_criterion(df, args.criteria[2]).rows)

C20_SpecialScoresInRange ==
    (pc = "analyzed" /\ FiniteRecord) =>
        /\ scores.error = "none"
        /\ scores.piotroski_f_score \in 0..9
        /\ scores.magic_formula_rank \in 1..100

\* a return on equity of -50 %: 100 - int(total_score) is above 100 and the
\* rank returned is 100
C20_Witness ==
    /\ Analyzed /\ FiniteRecord
    /\ data["roe"] = -5000
    /\ scores.magic_formula_rank = 100
    /\ scores.piotroski_f_score \in 0..9

\* the five-letter scale A, B, C, D, F of the grade, best first
Scale == <<"A", "B", "C", "D", "F">>
Place(letter) == CHOOSE i \in 1..Len(Scale) : Scale[i] = letter
OneUp(letter) == Scale[Max2(Place(letter) - 1, 1)]
OneDown(letter) == Scale[Min2(Place(letter) + 1, Len(Scale))]

\* the grade as stated: the composite ladder, one letter up or down on the
\* scale by the Piotroski score, one further letter down in distress
StatedGrade(composite, piotroski, altman) ==
    LET base == IF composite >= 80 THEN "A"
                ELSE IF composite >= 65 THEN "B"
                ELSE IF composite >= 50 THEN "C"
                ELSE IF composite >= 35 THEN "D"
                ELSE "F"
        adjusted == IF piotroski >= 7 /\ base \in {"B", "C"} THEN OneUp(base)
                    ELSE IF piotroski <= 3 /\ base \in {"A", "B", "C"}
                    THEN OneDown(base)
                    ELSE base
    IN  IF Lt(altman, 181) /\ adjusted # "F" THEN OneDown(adjusted) ELSE adjusted

\* C21: determine_grade returns the base grade of the composite ladder, moved
\* one letter up when Piotroski >= 7 and the base is B or C, or one letter down
\* when Piotroski <= 3 and the base is A, B or C, then one further letter down
\* when Altman < 1.81 and the grade so far is not F, a letter being one step on
\* the scale A, B, C, D, F, so that a D downgraded is F.
C21_GradeLadder ==
    pc \in {"graded", "regraded"} =>
        verdict.investment_grade =
            StatedGrade(args.composite, args.piotroski, args.altman)

\* the seven rules as stated, in their order: label and condition
RuleLabels ==
    <<"Avoid - High Bankruptcy Risk", "Avoid - Weak Financials", "Strong Buy",
      "Buy", "Hold", "Weak Hold", "Sell / Avoid">>
RuleHolds(k, a) ==
    CASE k = 1 -> Lt(a.altman, 150)
      [] k = 2 -> a.piotroski <= 2
      [] k = 3 -> a.composite >= 75 /\ a.piotroski >= 7 /\ Gt(a.graham_upside, 2000)
      [] k = 4 -> a.composite >= 65 /\ a.piotroski >= 6 /\ Gt(a.graham_upside, 0)
      [] k = 5 -> a.composite >= 50 /\ a.piotroski >= 5
      [] k = 6 -> a.composite >= 35
      [] k = 7 -> TRUE

\* C22: generate_recommendation returns the label of the first rule that
\* matches, in the order Altman < 1.5, Piotroski <= 2, Strong Buy, Buy, Hold,
\* Weak Hold, and 'Sell / Avoid' otherwise; the result is always one of the
\* seven labels.
C22_FirstMatchingRule ==
    pc \in {"graded", "regraded"} =>
        \E k \in 1..Len(RuleLabels) :
            /\ verdict.recommendation = RuleLabels[k]
            /\ RuleHolds(k, args)
            /\ \A j \in 1..(k - 1) : ~RuleHolds(j, args)

\* every rule from Strong Buy on matches and 'Strong Buy' is returned
C22_Witness ==
    /\ pc = "graded"
    /\ \A k \in 3..7 : RuleHolds(k, args)
    /\ ~RuleHolds(1, args) /\ ~RuleHolds(2, args)
    /\ verdict.recommendation = "Strong Buy"

\* C27: for every composite score 0..100, Piotroski score 0..9, Altman score
\* and upside, the grade and the recommendation computed from them agree:
\* 'Strong Buy' comes only with grade A or B, 'Buy' only with A, B or C, and a
\* grade F is never recommended 'Hold', 'Buy' or 'Strong Buy'.
C27_GradeMatchesRecommendation ==
    pc \in {"graded", "regraded"} =>
        /\ verdict.recommendation = "Strong Buy" =>
               verdict.investment_grade \in {"A", "B"}
        /\ verdict.recommendation = "Buy" =>
               verdict.investment_grade \in {"A", "B", "C"}
        /\ verdict.investment_grade = "F" =>
               verdict.recommendation \notin {"Hold", "Buy", "Strong Buy"}

\* a 'Buy' for a company downgraded for distress: composite 65 is a B, the
\* Altman score 1.5 is no bankruptcy risk but below 1.81, and the grade is C
C27_Witness ==
    /\ pc = "graded"
    /\ args.composite = 65 /\ args.altman = 150
    /\ verdict.recommendation = "Buy"
    /\ verdict.investment_grade = "C"

\* C25: calculate_altman_z_score returns 0 whenever total_assets <= 0, and
\* otherwise the weighted sum 1.2 A + 1.4 B + 3.3 C + 0.6 D + 1.0 E of the
\* clamped components rounded to two decimals, so that the result always lies
\* in [-0.69, 7.29].
C25_AltmanInRange ==
    Analyzed =>
        LET total_assets == _get_float(data, "total_assets", 100)
            z == scores.altman_z_score
        IN  /\ Le(total_assets, 0) => z = 0
            /\ Ge(z, -69) /\ Le(z, 729)

\* the rows of a table as a set
RowSet(t) == {t.rows[i] : i \in 1..Len(t.rows)}
\* the working table of screen after its first k criteria
Working(k) == _apply_all(df, SubSeq(args.criteria, 1, k))

\* C29: screening only narrows.  After each criterion the working set is a
\* subset of the set before it and the result is a subset of the input rows;
\* a row whose value in the criterion's column is null is removed whatever the
\* operator is, an operator the screener does not know included; a criterion
\* that names a column the table lacks removes no row.
C29_ScreenNarrows ==
    (pc = "done" /\ ret.op = "screen") =>
        /\ ret.error = "none"
        /\ RowSet(ret) \subseteq RowSet(df)
        /\ Len(df.rows) > 0 => ret.rows = Working(Len(args.criteria)).rows
        /\ \A k \in 1..Len(args.criteria) :
              LET c == args.criteria[k].column
              IN  /\ RowSet(Working(k)) \subseteq RowSet(Working(k - 1))
                  /\ c \in df.columns =>
                         \A row \in RowSet(Working(k)) : row[c] # NaN
                  /\ c \notin df.columns => Working(k) = Working(k - 1)

\* a criterion with an operator the screener does not know removed the one
\* company whose cell is null and kept the other; a criterion on a column
\* the table lacks removed none
C29_Witness ==
    /\ pc = "done" /\ ret.op = "screen"
    /\ Len(df.rows) = 2 /\ Len(ret.rows) = 1
    /\ Len(args.criteria) = 2
    /\ args.criteria[1].operator = "ne"
    /\ \E i \in 1..2 : df.rows[i][args.criteria[1].column] = NaN
    /\ Len(Working(1).rows) = 1
    /\ args.criteria[2].column \notin df.columns

\* a computed cell that is inf or -inf
Infinite(x) == x # RNaN /\ x[2] = 0

\* C23: every derived ratio of calculate_all_metrics whose denominator is <= 0
\* takes its sentinel: 999 for interest_coverage and cf_to_debt, 0 for the
\* other ratios, cfps with a share count of 0 among them; no ratio is ever
\* infinite or the quotient by a non-positive denominator.
C23_DenominatorSentinels ==
    (pc = "done" /\ ret.op = "calculate_all_metrics" /\ ret.error = "none") =>
        LET in == df.rows[1]
            out == ret.rows[1]
        IN  /\ (Has(df, "total_debt") /\ Le(in["total_debt"], 0)) =>
                   out["cf_to_debt"] = RInt(999)
            /\ (Has(df, "interest_expense") /\ Le(in["interest_expense"], 0)) =>
                   out["interest_coverage"] = RInt(999)
            /\ Le(in["net_profit"], 0) => out["fcf_to_net_income"] = RInt(0)
            /\ Le(in["total_assets"], 0) => out["accruals_ratio"] = RInt(0)
            /\ (Has(df, "shares_outstanding") /\ Le(in["shares_outstanding"], 0)) =>
                   out["cfps"] = RInt(0)
            /\ \A c \in {"cf_to_debt", "interest_coverage", "fcf_to_net_income",
                         "accruals_ratio", "cfps"} : ~Infinite(out[c])

\* C24: when an input column is absent, every ratio that uses it substitutes
\* the documented estimate; in particular cash_ratio is computed from
\* cash = operating_cash_flow * 0.3 and inventory_turnover from
\* inventory = current_assets * 0.25.
C24_DocumentedEstimates ==
    (pc = "done" /\ ret.op = "calculate_all_metrics" /\ ret.error = "none"
        /\ ~Has(df, "cash") /\ ~Has(df, "inventory")
        /\ \A c \in {"operating_cash_flow", "current_assets", "current_liabilities",
                     "cogs"} : Has(df, c) /\ Gt(df.rows[1][c], 0)) =>
        LET in == df.rows[1]
            out == ret.rows[1]
        IN  /\ out["cash_ratio"] =
                   Rat(in["operating_cash_flow"] * 3, in["current_liabilities"] * 10)
            /\ out["inventory_turnover"] = Rat(in["cogs"] * 4, in["current_assets"])

\* the derived cells whose values are computed
DerivedCells == {"interest_coverage", "cash_ratio", "inventory_turnover", "cf_to_debt",
                 "cfps", "fcf_to_net_income", "accruals_ratio", "sloan_ratio",
                 "earnings_quality", "sustainable_growth_rate", "payout_ratio"}

\* C26: calculate_all_metrics is idempotent: applied to its own output it
\* returns the same derived values; in particular sustainable_growth_rate is
\* the same after the second pass although payout_ratio was written by the
\* first.
C26_Idempotent ==
    [][(pc = "done" /\ pc' = "again") =>
          /\ ret'.error = "none"
          /\ ret'.columns = ret.columns
          /\ \A c \in DerivedCells : ret'.rows[1][c] = ret.rows[1][c]]_vars

\* the rows of the result that belong to a sector
InSector(rows, sector) == {k \in 1..Len(rows) : rows[k]["sector"] = sector}

\* C28: on a table with a sector column suggest_balanced_portfolio returns at
\* most num_stocks rows (none when num_stocks is 0) and at most max_per_sector
\* rows of any sector, chosen greedily in rank order: a row is left out,
\* although fewer than num_stocks rows were chosen, only if its sector already
\* has max_per_sector rows chosen.
C28_BalancedPortfolio ==
    (pc = "done" /\ ret.op = "suggest_balanced_portfolio" /\ ret.error = "none"
        /\ Has(df, "sector")) =>
        /\ Len(ret.rows) <= args.num_stocks
        /\ \A sector \in {"Banks", "Hotels"} :
              Cardinality(InSector(ret.rows, sector)) <= args.max_per_sector
        /\ \A i \in 1..Len(df.rows) :
              (/\ \A k \in 1..Len(ret.rows) : ret.rows[k]["symbol"] # df.rows[i]["symbol"]
               /\ Len(ret.rows) < args.num_stocks) =>
                  Cardinality(InSector(ret.rows, df.rows[i]["sector"]))
                      = args.max_per_sector

\* the attempts the call has made, in order
Requests == SelectSeq(calls, LAMBDA e : e.ev = "request")

\* what holds of every call at every moment: at most retries attempts; a good
\* response ends the call at once with its value; the failed attempt k is
\* followed by a sleep of 2^k seconds unless it was the last one, which ends
\* the call; _rate_limit runs once, first
RequestSteps ==
    /\ Len(Requests) <= args.retries
    /\ pc # "call" =>
          /\ calls[1].ev = "rate_limit"
          /\ \A i \in 2..Len(calls) : calls[i].ev # "rate_limit"
    /\ \A i \in 1..Len(calls) :
          calls[i].ev = "request" =>
              IF calls[i].response # "error"
              THEN i = Len(calls) /\ pc = "returned"
              ELSE IF calls[i].attempt < args.retries - 1
              THEN IF i = Len(calls) THEN pc = "except"
                   ELSE calls[i + 1] = [ev |-> "sleep", seconds |-> 2 ^ calls[i].attempt]
              ELSE i = Len(calls) /\ pc = "returned" /\ ret.value = "None"
    /\ \A i \in 1..Len(calls) :
          calls[i].ev = "sleep" =>
              i > 1 /\ calls[i - 1].ev = "request" /\ calls[i - 1].response = "error"

AllFailed ==
    /\ Len(Requests) = args.retries
    /\ \A k \in 1..Len(Requests) : Requests[k].response = "error"

\* C30 as stated: _make_request always terminates after at most retries
\* attempts; it returns the first successful response without further
\* attempts, returns None only after every attempt failed with a request
\* error, and waits 2^k seconds after the failed attempt k except after the
\* last; the rate-limit delay is applied once, before the first attempt.
C30_NoneOnlyAfterAllFailed ==
    /\ <>(pc = "returned")
    /\ [](RequestSteps /\ ((pc = "returned" /\ ret.value = "None") => AllFailed))

\* C30 amended: as stated, except that None is also what the call returns for
\* a successful response whose body is the JSON value null.
C30_RetriesThenReturns ==
    /\ <>(pc = "returned")
    /\ [](RequestSteps
          /\ ((pc = "returned" /\ ret.value = "None") =>
                 \/ AllFailed
                 \/ calls[Len(calls)] = [ev |-> "request", attempt |-> Len(Requests) - 1,
                                         response |-> "null"])
          /\ ((pc = "returned" /\ ret.value # "None") =>
                 /\ calls[Len(calls)].ev = "request"
                 /\ calls[Len(calls)].response \in {"object", "text"}))

\* three attempts failed, the call slept 1 and 2 seconds between them and
\* returned None without a third sleep
C30_Witness ==
    /\ pc = "returned" /\ ret.value = "None"
    /\ args.retries = 3 /\ args.elapsed = 0
    /\ calls = <<[ev |-> "rate_limit", seconds |-> 1],
                 [ev |-> "request", attempt |-> 0, response |-> "error"],
                 [ev |-> "sleep", seconds |-> 1],
                 [ev |-> "request", attempt |-> 1, response |-> "error"],
                 [ev |-> "sleep", seconds |-> 2],
                 [ev |-> "request", attempt |-> 2, response |-> "error"]>>

====
